---------------------------- MODULE Spec2Model ----------------------------
(***************************************************************************)
(* nbtgTimer: the double-buffered SSD1309 display session (display.c), the *)
(* chunked I2C transfer engine (i2c.c), the SPI command/DMA glue (spi.c)   *)
(* and the framerate timer hook (timer.c), as one state machine.           *)
(*                                                                         *)
(* Contexts of execution: the main context (draw calls, toggleDisplay, the *)
(* callers of the engine API) and the interrupt handlers TIM14, DMA1       *)
(* channel 1, I2C1 and I2C2.  All handlers run at NVIC priority 0, so a    *)
(* handler is never preempted by another one: each handler invocation is   *)
(* one atomic action.  A hardware event and the handler it raises are one  *)
(* action, guarded by the peripheral state that makes the event possible.  *)
(***************************************************************************)
EXTENDS Integers, Sequences, FiniteSets, TLC

VARIABLES
    disp,                 \* g_displayContext without the transfer context
    mem,                  \* byte memory: the set of <<flat byte address, bit>> that are 1
    xfer,                 \* the transfer contexts in memory, by owner
    eng,                  \* the file-scope globals of i2c.c and spi.c
    g_framerateCallback,  \* timer.c g_framerateCallback.fnCb
    dma,                  \* DMA1 channel 1: enable bit, memory address, data length
    i2c,                  \* per I2C peripheral: CR2.NBYTES and the byte-wise transfer state
    wire,                 \* chunks issued to the bus for the transfer started last
    lastCb,               \* the last completion callback invocation, as observed at the call
    cbCount,              \* completion callbacks invoked since the last transfer start
    lastOp,               \* the operation or handler that made the last step
    halted,               \* the core sits in the HardFault handler
    SSD1306,              \* ssd1306.c: the screen object (CurrentX, CurrentY)
    cmd,                  \* the bytes the last command-emitting call sent on the command path
    call,                 \* the last call of a drawing routine: count, arguments, return value
    panel,                \* what the DMA has read of the frame in flight, and the frame
                          \* last transmitted in full and with success
    draw,                 \* where the main context is inside dispDrawPixel
    tim,                  \* the prescaler, auto-reload and enable bits of the timers
    spi                   \* the display SPI bus: the D/C line, the main context's position
                          \* in spiSendCommand, and the last byte shifted out

vars == <<disp, mem, xfer, eng, g_framerateCallback, dma, i2c, wire, lastCb, cbCount,
          lastOp, halted, SSD1306, cmd, call, spi, panel, draw, tim>>

-----------------------------------------------------------------------------
(* Program constants *)

SSD1309_WIDTH == 128
SSD1309_HEIGHT == 64
SSD1309_PAGE_SIZE_BYTES == 128
SSD1309_GDDRAM_SIZE_BYTES == 1024
I2C_MAX_NBYTES == 255

(* ssd1306.h is not among the sources; the panel of ssd1306.c is the 128x64  *)
(* panel of the design, its buffer W*H/8 bytes.                              *)
SSD1306_WIDTH == 128
SSD1306_HEIGHT == 64
SSD1306_BUFFER_SIZE == 1024

(* Bounds of the model *)

\* number of distinct panel pixels the draw calls of the model address
NumPix == 2
\* largest length handed to the DMA display path by a caller of the engine
MaxLen == 1024
\* largest length handed to the byte-wise i2cTransmit path
MaxITLen == 258
\* address NACKs the target gives in one byte-wise transfer
MaxNack == 1
\* calls of drawing routines made in a row on the buffers initDisplay has cleared
MaxCalls == 2

Modes == {"MODE_I2C", "MODE_SPI"}
Colors == {"COLOR_BLACK", "COLOR_WHITE"}
Buffers == {"buffer1", "buffer2"}

\* the k-th pixel the display session draws, 1-based as dispDrawPixel takes it
PixelOf(k) == [x |-> k, y |-> 9 * k - 8]
Pixels == {PixelOf(k) : k \in 1..NumPix}

\* the lengths callers hand to the DMA display path and to i2cTransmit
Lengths == {0, 1, 254, 255, 256, 509, 510, MaxLen}
ITLengths == {0, 1, 2, 254, 255, 256, MaxITLen}

-----------------------------------------------------------------------------
(* Memory layout of SFrameBuffer_t: buffer1 followed by buffer2 *)

Base(b) == IF b = "buffer1" THEN 0 ELSE SSD1309_GDDRAM_SIZE_BYTES

InBuffer(b, addr) == Base(b) <= addr /\ addr < Base(b) + SSD1309_GDDRAM_SIZE_BYTES

\* the content of one buffer, as <<offset, bit>> pairs
Content(m, b) == {<<p[1] - Base(b), p[2]>> : p \in {q \in m : InBuffer(b, q[1])}}

\* the bits of the len bytes from offset off of a framebuffer, as <<offset, bit>>
ChunkContent(m, b, off, len) ==
    IF b \in Buffers
    THEN {p \in Content(m, b) : off <= p[1] /\ p[1] < off + len}
    ELSE {}

\* memcpy(dst->buffer, src->buffer, SSD1309_GDDRAM_SIZE_BYTES)
Memcpy(m, dst, src) ==
    {q \in m : ~InBuffer(dst, q[1])}
        \cup {<<p[1] + Base(dst), p[2]>> : p \in Content(m, src)}


-----------------------------------------------------------------------------
(* Transfer contexts (SI2CTransfer_t / SDMATranferContext_t) and pointers *)

NULL == "NULL"

\* a pointer into a byte buffer: the buffer and the offset from its start
Ptr(b, o) == [buf |-> b, off |-> o]

Ctx(b, l) == [pBuffer |-> Ptr(b, 0), len |-> l, transferred |-> 0]

\* the owners of transfer contexts: the display session and a caller of the engine API
CtxIds == {"disp", "app"}

\* one chunk handed to the bus: the offset of its first byte in the caller's buffer,
\* the byte count and how the bus transaction was generated
Chunk(bus, o, n, g) == [bus |-> bus, off |-> o, size |-> n, gen |-> g]

NoCb == [fn |-> NULL, success |-> FALSE, transferred |-> 0, len |-> 0]

(* The peripherals at rest.  CMAR, CNDTR and CR2.NBYTES keep their last value *)
(* in the hardware when a transfer ends; every start rewrites them before any  *)
(* handler reads them, so the model holds them at zero between transfers.      *)
DmaOff == [en |-> FALSE, buf |-> NULL, off |-> 0, len |-> 0]
I2cOff == [p \in 1..2 |-> [nbytes |-> 0, itActive |-> FALSE, need |-> 0, nacks |-> 0]]

\* nothing read and nothing transmitted yet: the panel shows the cleared frame
NoFrame == [issued |-> {}, acc |-> {}, frame |-> {}]

\* the timers after reset: prescaler 0, auto-reload all ones (16-bit registers),
\* counter and update interrupt disabled
HWTimers == {"TIM1", "TIM14", "TIM15"}
TimReset == [t \in HWTimers |-> [PSC |-> 0, ARR |-> 65535, CEN |-> FALSE, UIE |-> FALSE]]

\* the main context outside dispDrawPixel
DrawIdle == [pc |-> "idle", pixel |-> [x |-> 1, y |-> 1], color |-> "COLOR_BLACK",
             front |-> "NULL", byte |-> {}]

\* the display SPI bus at rest: D/C line high (data), the main context outside
\* spiSendCommand, no byte shifted out yet
SpiIdle ==
    [dc |-> "data", pc |-> "idle", todo |-> <<>>, enable |-> FALSE,
     bus |-> [kind |-> NULL, dc |-> "data"]]

\* no drawing routine has been called yet
NoCall == [n |-> 0, fn |-> NULL]

\* the hardware has nothing in flight: no DMA chunk and no byte-wise transfer
Idle == ~dma.en /\ ~i2c[1].itActive /\ ~i2c[2].itActive

-----------------------------------------------------------------------------
(* ssd1306.c: the screen object as ssd1306_Init leaves it *)

InitSSD1306 == [CurrentX |-> 0, CurrentY |-> 0]

\* SSD1306_Buffer is a static array of its own, apart from g_framebuffers
SSD1306_BufferBase == 8 * SSD1309_GDDRAM_SIZE_BYTES

\* memory after ssd1306_DrawPixel(x, y, color); the arguments are uint8_t
ssd1306_DrawPixel(m, x, y, color) ==
    LET x8 == x % 256
        y8 == y % 256
        cell == <<SSD1306_BufferBase + x8 + (y8 \div 8) * SSD1306_WIDTH, y8 % 8>>
    IN  IF x8 >= SSD1306_WIDTH \/ y8 >= SSD1306_HEIGHT THEN m
        ELSE IF color = "White" THEN m \cup {cell} ELSE m \ {cell}

\* the bits a run of ssd1306_DrawPixel calls over the pixels ps addresses
ssd1306_Cells(ps) == UNION {ssd1306_DrawPixel({}, p[1], p[2], "White") : p \in ps}

\* memory after ssd1306_DrawPixel(x, y, color) for every <<x, y>> of ps
ssd1306_DrawPixels(m, ps, color) ==
    IF color = "White" THEN m \cup ssd1306_Cells(ps) ELSE m \ ssd1306_Cells(ps)

Min(a, b) == IF a <= b THEN a ELSE b
Max(a, b) == IF a <= b THEN b ELSE a

\* the pixels the loops of ssd1306_FillRectangle and dispDrawFilledRectangle hand
\* to the pixel routine: y from y_start while y <= y_end and y < h, x likewise
FillRectanglePixels(x1, y1, x2, y2, w, h) ==
    {<<x, y>> : x \in {v \in Min(x1, x2)..Max(x1, x2) : v < w},
                y \in {v \in Min(y1, y2)..Max(y1, y2) : v < h}}

ssd1306_FillRectangle(m, x1, y1, x2, y2, color) ==
    ssd1306_DrawPixels(m, FillRectanglePixels(x1, y1, x2, y2, SSD1306_WIDTH,
                                              SSD1306_HEIGHT), color)

\* display.c g_cosLUT: cos(i * 5 deg) * 1024 for i = 0..71, signed as the cosine is
g_cosLUT ==
    << 1024,  1020,  1008,  989,  962,  928,  887,  839,  784,  724,  658,   587,
       512,   433,   350,   265,  178,  89,   0,    -89,  -178, -265, -350,  -433,
       -512,  -587,  -658,  -724, -784, -839, -887, -928, -962, -989, -1008, -1020,
       -1024, -1020, -1008, -989, -962, -928, -887, -839, -784, -724, -658,  -587,
       -512,  -433,  -350,  -265, -178, -89,  0,    89,   178,  265,  350,   433,
       512,   587,   658,   724,  784,  839,  887,  928,  962,  989,  1008,  1020 >>

\* fxp_cos(uint16_t deg): the table entry of deg mod 360, negated between 90
\* (exclusive) and 270 (inclusive) degrees
fxp_cos(deg) ==
    LET d == (deg % 65536) % 360
        idx == d \div 5
        val == g_cosLUT[idx + 1]
    IN  IF d > 90 /\ d <= 270 THEN -val ELSE val

\* fxp_sin(uint16_t deg)
fxp_sin(deg) == fxp_cos(((deg % 65536) + 90) % 360)

\* the bits that are 1 in the low byte of v, which is what is stored into a uint8_t
BitsOf(v) == {b \in 0..7 : ((v % 256) \div 2^b) % 2 = 1}

\* SSD1306_Buffer[i] ^= mask, as the set of bits it flips
XorCells(i, mask) == {<<SSD1306_BufferBase + i, b>> : b \in BitsOf(mask)}

\* memory with the bits of cells flipped
Flip(m, cells) == (m \ cells) \cup (cells \ m)

\* the guards of ssd1306_InvertRectangle: TRUE when it returns SSD1306_ERR
InvertRectangleRejects(x1, y1, x2, y2) ==
    \/ x2 >= SSD1306_WIDTH \/ y2 >= SSD1306_HEIGHT
    \/ x1 > x2 \/ y1 > y2

InvertFirstMask(y1) == 255 * 2^(y1 % 8)

\* a mask for the last page that is shifted one bit too far (mutant of InvertLastMask)
InvertLastMaskShort(y2) == 255 \div 2^(8 - (y2 % 8))

InvertLastMask(y2) == 255 \div 2^(7 - (y2 % 8))

\* the bits ssd1306_InvertRectangle flips in column x when the rectangle spans
\* several pages: the first page from row y1 down, the pages between in full, the
\* last page down to row y2.  The bytes are distinct, so no bit is flipped twice.
InvertColumnCells(x, y1, y2) ==
    LET first == x + (y1 \div 8) * SSD1306_WIDTH
        last == x + (y2 \div 8) * SSD1306_WIDTH
        between == {i \in first + 1..last - 1 : (i - first) % SSD1306_WIDTH = 0}
    IN  XorCells(first, InvertFirstMask(y1))
            \cup UNION {XorCells(i, 255) : i \in between}
            \cup XorCells(last, InvertLastMask(y2))

\* the bits it flips when the rectangle lies in one page: one mask for every byte
\* from x1 to x2 of that page
InvertPageCells(x1, y1, x2, y2) ==
    LET mask == BitsOf(InvertFirstMask(y1)) \cap BitsOf(InvertLastMask(y2))
    IN  {<<SSD1306_BufferBase + i, b>> :
            i \in x1 + (y1 \div 8) * SSD1306_WIDTH..x2 + (y2 \div 8) * SSD1306_WIDTH,
            b \in mask}

\* ssd1306_InvertRectangle: the return value and memory after it
ssd1306_InvertRectangle(m, x1, y1, x2, y2) ==
    IF InvertRectangleRejects(x1, y1, x2, y2) THEN [ret |-> "SSD1306_ERR", mem |-> m]
    ELSE IF y1 \div 8 # y2 \div 8
    THEN [ret |-> "SSD1306_OK",
          mem |-> Flip(m, UNION {InvertColumnCells(x, y1, y2) : x \in x1..x2})]
    ELSE [ret |-> "SSD1306_OK", mem |-> Flip(m, InvertPageCells(x1, y1, x2, y2))]

\* a length check that lets one byte too many through (mutant of FillBufferFits)
FillBufferFitsOneMore(len) == len <= SSD1306_BUFFER_SIZE + 1

\* the guard of ssd1306_FillBuffer
FillBufferFits(len) == len <= SSD1306_BUFFER_SIZE

\* ssd1306_FillBuffer(buf, len) from a source whose bytes all have the value byte:
\* the return value and memory after the memcpy of len bytes
ssd1306_FillBuffer(m, byte, len) ==
    IF FillBufferFits(len)
    THEN [ret |-> "SSD1306_OK",
          mem |-> {q \in m : ~(SSD1306_BufferBase <= q[1]
                                 /\ q[1] < SSD1306_BufferBase + len)}
                      \cup UNION {XorCells(i, byte) : i \in 0..len - 1}]
    ELSE [ret |-> "SSD1306_ERR", mem |-> m]

Abs(v) == IF v < 0 THEN -v ELSE v

\* the elements of a sequence
Range(seq) == {seq[k] : k \in 1..Len(seq)}

\* a line on the panel is done within this many passes of the loop
LineFuel == SSD1306_WIDTH + SSD1306_HEIGHT

\* one pass of the while loop of ssd1306_Line, on the loop variables and the pixels
\* drawn so far; done when the loop condition has failed
ssd1306_LineStep(st, x2, y2, deltaX, deltaY, signX, signY) ==
    IF st.done \/ (st.x = x2 /\ st.y = y2) THEN [st EXCEPT !.done = TRUE]
    ELSE LET error2 == st.err * 2
             stepX == error2 > -deltaY
             stepY == error2 < deltaX
             errorX == IF stepX THEN st.err - deltaY ELSE st.err
         IN  [x |-> IF stepX THEN (st.x + signX) % 256 ELSE st.x,
              y |-> IF stepY THEN (st.y + signY) % 256 ELSE st.y,
              err |-> IF stepY THEN errorX + deltaX ELSE errorX,
              drawn |-> Append(st.drawn, <<st.x, st.y>>),
              done |-> FALSE]

\* n passes of the loop, or fewer when it has ended
RECURSIVE ssd1306_LineLoop(_, _, _, _, _, _, _, _)
ssd1306_LineLoop(st, n, x2, y2, deltaX, deltaY, signX, signY) ==
    IF n = 0 THEN st
    ELSE IF n = 1 THEN ssd1306_LineStep(st, x2, y2, deltaX, deltaY, signX, signY)
    ELSE LET half == ssd1306_LineLoop(st, n \div 2, x2, y2, deltaX, deltaY, signX,
                                      signY)
         IN  IF half.done THEN half
             ELSE ssd1306_LineLoop(half, n - n \div 2, x2, y2, deltaX, deltaY, signX,
                                   signY)

\* ssd1306_Line: the pixels handed to ssd1306_DrawPixel, in order, (x2, y2) first,
\* and whether the loop has ended
ssd1306_LineRun(x1, y1, x2, y2) ==
    ssd1306_LineLoop([x |-> x1, y |-> y1, err |-> Abs(x2 - x1) - Abs(y2 - y1),
                      drawn |-> << <<x2, y2>> >>, done |-> FALSE],
                     LineFuel, x2, y2, Abs(x2 - x1), Abs(y2 - y1),
                     IF x1 < x2 THEN 1 ELSE -1, IF y1 < y2 THEN 1 ELSE -1)

-----------------------------------------------------------------------------
(* display.c *)

\* g_displayContext = { 0 } before initDisplay
ZeroDisplayContext ==
    [isEnabled |-> FALSE, mode |-> "MODE_I2C", DMAIsEnabled |-> FALSE,
     DMAInProgress |-> FALSE, pFrontBuffer |-> NULL, pBackBuffer |-> NULL,
     fbModified |-> FALSE, currentX |-> 0, currentY |-> 0]

\* g_displayContext when initDisplay(displayMode) returns
initDisplay(displayMode) ==
    [isEnabled |-> TRUE, mode |-> displayMode, DMAIsEnabled |-> TRUE,
     DMAInProgress |-> FALSE, pFrontBuffer |-> "buffer1", pBackBuffer |-> "buffer2",
     fbModified |-> FALSE, currentX |-> 0, currentY |-> 0]

\* dmaTransferContext as initDisplay leaves it: the front buffer, the whole GDDRAM
initTransferContext == Ctx("buffer1", SSD1309_GDDRAM_SIZE_BYTES)

\* the callbacks initDisplay registers with the engine and the timer
initEngine(displayMode) ==
    [g_fnI2cDMACallback |-> IF displayMode = "MODE_I2C" THEN "dispDMACallback" ELSE NULL,
     g_fnSpiDMACallback |-> IF displayMode = "MODE_SPI" THEN "dispDMACallback" ELSE NULL,
     g_fnI2cRegularCallback |-> NULL,
     g_pCurrentTransfer_I2C1 |-> NULL,
     g_pCurrentTransfer_I2C2 |-> NULL]

initFramerateCallback(displayMode) ==
    IF displayMode = "MODE_SPI" THEN "dispSyncFramebuffer" ELSE NULL

-----------------------------------------------------------------------------
(* display.h / display.c: the controller commands *)

SSD1309_SET_START_LINE == 64
SSD1309_MEMORY_MODE == 32
SSD1309_DEACTIVATE_SCROLL == 46
SSD1309_SET_CONTRAST == 129
SSD1309_DISPLAY_ALL_ON_RESUME == 164
SSD1309_NORMAL_DISPLAY == 166
SSD1309_SET_MULTIPLEX == 168
SSD1309_SET_MASTER_CONFIG == 173
SSD1309_DISPLAY_OFF == 174
SSD1309_DISPLAY_ON == 175
SSD1309_SEG_REMAP_FLIP == 161
SSD1309_COM_SCAN_DEC == 200
SSD1309_SET_DISPLAY_OFFSET == 211
SSD1309_SET_DISPLAY_CLOCK_DIV == 213
SSD1309_SET_PRECHARGE == 217
SSD1309_SET_COM_PINS == 218
SSD1309_SET_VCOM_DESELECT == 219

\* SDisplayCommand_t
DisplayCommand(c, p, h) == [command |-> c, parameter |-> p, hasParameter |-> h]

SSD1309_INIT_SEQ ==
    << DisplayCommand(SSD1309_DISPLAY_OFF, 0, FALSE),
       DisplayCommand(SSD1309_SET_DISPLAY_CLOCK_DIV, 160, TRUE),
       DisplayCommand(SSD1309_SET_MULTIPLEX, 63, TRUE),
       DisplayCommand(SSD1309_SET_DISPLAY_OFFSET, 0, TRUE),
       DisplayCommand(SSD1309_SET_START_LINE, 0, FALSE),
       DisplayCommand(SSD1309_SET_MASTER_CONFIG, 142, TRUE),
       DisplayCommand(SSD1309_MEMORY_MODE, 0, TRUE),
       DisplayCommand(SSD1309_SEG_REMAP_FLIP, 0, FALSE),
       DisplayCommand(SSD1309_COM_SCAN_DEC, 0, FALSE),
       DisplayCommand(SSD1309_SET_COM_PINS, 18, TRUE),
       DisplayCommand(SSD1309_SET_CONTRAST, 111, TRUE),
       DisplayCommand(SSD1309_SET_PRECHARGE, 241, TRUE),
       DisplayCommand(SSD1309_SET_VCOM_DESELECT, 48, TRUE),
       DisplayCommand(SSD1309_DEACTIVATE_SCROLL, 0, FALSE),
       DisplayCommand(SSD1309_DISPLAY_ALL_ON_RESUME, 0, FALSE),
       DisplayCommand(SSD1309_NORMAL_DISPLAY, 0, FALSE) >>

\* a command write that always sends the parameter byte (mutant of dispWriteCommand)
dispWriteCommandWithParameter(c) == <<c.command, c.parameter>>

\* dispWriteCommand: the bytes handed to spiSendCommand, the opcode and, when the
\* command has one, its parameter
dispWriteCommand(c) ==
    IF c.hasParameter THEN <<c.command, c.parameter>> ELSE <<c.command>>

\* the loop of initDisplay over a command table
RECURSIVE WriteCommands(_)
WriteCommands(seq) ==
    IF seq = <<>> THEN <<>>
    ELSE dispWriteCommand(Head(seq)) \o WriteCommands(Tail(seq))

\* the command bytes initDisplay sends: the table, then display-on
initDisplayCommands ==
    WriteCommands(SSD1309_INIT_SEQ)
        \o dispWriteCommand(DisplayCommand(SSD1309_DISPLAY_ON, 0, FALSE))

\* a toggleDisplay that also drops the dirty flag (mutant of toggleDisplayCtx)
toggleDisplayCtxClearsDirty(d, enable) ==
    [d EXCEPT !.isEnabled = enable, !.fbModified = FALSE]

\* toggleDisplay on the display context, and the command it sends
toggleDisplayCtx(d, enable) == [d EXCEPT !.isEnabled = enable]

toggleDisplayCommands(enable) ==
    dispWriteCommand(DisplayCommand(IF enable THEN SSD1309_DISPLAY_ON
                                              ELSE SSD1309_DISPLAY_OFF, 0, FALSE))

-----------------------------------------------------------------------------
(* display.c: dispDrawPixel *)

\* the early return of dispDrawPixel
DrawPixelRejects(pixel) == pixel.x > SSD1309_WIDTH \/ pixel.y > SSD1309_HEIGHT

\* the byte dispDrawPixel addresses, as a flat address, and the bit in it
DrawPixelAddr(d, pixel) ==
    LET x == (pixel.x - 1) % 256
        y == (pixel.y - 1) % 256
        page == y \div 8
    IN  Base(d.pFrontBuffer) + page * SSD1309_PAGE_SIZE_BYTES + x

\* bit 7 for the topmost row of a page (mutant of DrawPixelBit)
DrawPixelBitFromBottom(pixel) == 7 - ((((pixel.y - 1) % 256)) % 8)

DrawPixelBit(pixel) == ((pixel.y - 1) % 256) % 8

dispDrawPixelMem(d, m, pixel, color) ==
    LET cell == <<DrawPixelAddr(d, pixel), DrawPixelBit(pixel)>>
    IN  IF color = "COLOR_WHITE" THEN m \cup {cell} ELSE m \ {cell}

\* memory after dispDrawPixel((SPixel_t){ {x, y}, color }), the early return included;
\* the coordinates are stored into uint8_t fields
dispDrawPixel(d, m, x, y, color) ==
    LET pixel == [x |-> x % 256, y |-> y % 256]
    IN  IF DrawPixelRejects(pixel) THEN m ELSE dispDrawPixelMem(d, m, pixel, color)

\* dispDrawPixel got past its early return and set fbModified
DrawPixelAccepts(x, y) == ~DrawPixelRejects([x |-> x % 256, y |-> y % 256])

\* a gate that does not look at DMAInProgress (mutant of SyncGate)
SyncGateIgnoresInProgress(d) == d.isEnabled /\ d.DMAIsEnabled /\ d.fbModified

\* the gate of dispSyncFramebuffer: TRUE when it goes on to start a transfer
SyncGate(d) == d.isEnabled /\ d.DMAIsEnabled /\ d.fbModified /\ ~d.DMAInProgress

\* dispDMACallback on the display context: the roles swap whatever isComplete is
dispDMACallbackCtx(d, isComplete) ==
    [d EXCEPT !.pFrontBuffer = d.pBackBuffer, !.pBackBuffer = d.pFrontBuffer,
              !.DMAInProgress = FALSE, !.fbModified = FALSE]

\* dispDMACallback on the framebuffers: front is copied over back before the swap
dispDMACallbackMem(d, m, isComplete) == Memcpy(m, d.pBackBuffer, d.pFrontBuffer)

\* dispDMACallback on the transfer context: pBuffer follows the new front buffer
dispDMACallbackXfer(d, x, isComplete) ==
    [x EXCEPT !["disp"].pBuffer = Ptr(d.pBackBuffer, 0)]

-----------------------------------------------------------------------------
(* display.c: the routines built on dispDrawPixel *)

\* the bits a run of dispDrawPixel calls over the pixels ps addresses
dispCells(d, ps) == UNION {dispDrawPixel(d, {}, p[1], p[2], "COLOR_WHITE") : p \in ps}

\* memory after dispDrawPixel({ {x, y}, color }) for every <<x, y>> of ps
dispDrawPixels(d, m, ps, color) ==
    IF color = "COLOR_WHITE" THEN m \cup dispCells(d, ps) ELSE m \ dispCells(d, ps)

\* the display context after the same calls: fbModified is set by any accepted pixel
dispDrawPixelsCtx(d, ps) ==
    IF \E p \in ps : DrawPixelAccepts(p[1], p[2]) THEN [d EXCEPT !.fbModified = TRUE]
    ELSE d

\* (b << j) & 0x8000: column j of a glyph row is ink when bit 15 - j of the row is set
GlyphInk(b, j) == j <= 15 /\ (b \div 2^(15 - j)) % 2 = 1

\* !color on SSD1306_COLOR and on EColor_t
ssd1306_NotColor(color) == IF color = "Black" THEN "White" ELSE "Black"
dispNotColor(color) == IF color = "COLOR_BLACK" THEN "COLOR_WHITE" ELSE "COLOR_BLACK"

\* the two loops of ssd1306_WriteChar from pixel k on, row by row: ink in the
\* colour, the rest of the cell in the other colour
RECURSIVE ssd1306_WriteCharLoop(_, _, _, _, _, _)
ssd1306_WriteCharLoop(m, S, ch, Font, color, k) ==
    IF k >= Font.width * Font.height THEN m
    ELSE LET i == k \div Font.width
             j == k % Font.width
             b == Font.data[(ch - 32) * Font.height + i]
             c == IF GlyphInk(b, j) THEN color ELSE ssd1306_NotColor(color)
         IN  ssd1306_WriteCharLoop(ssd1306_DrawPixel(m, S.CurrentX + j, S.CurrentY + i, c),
                                   S, ch, Font, color, k + 1)

\* the checks of ssd1306_WriteChar: TRUE when it returns 0 without drawing
ssd1306_WriteCharRejects(S, ch, Font) ==
    \/ ch < 32 \/ ch > 126
    \/ SSD1306_WIDTH < S.CurrentX + Font.width
    \/ SSD1306_HEIGHT < S.CurrentY + Font.height

\* Font.char_width as a table indexed by ch - 32; a NULL pointer is the table
\* with no entries
NoCharWidth == [c \in {} |-> 0]
HasCharWidth(Font) == DOMAIN Font.char_width # {}

\* ssd1306_WriteChar: the return value, the cursor object and memory after it
ssd1306_WriteChar(S, m, ch, Font, color) ==
    IF ssd1306_WriteCharRejects(S, ch, Font) THEN [ret |-> 0, SSD1306 |-> S, mem |-> m]
    ELSE [ret |-> ch,
          SSD1306 |-> [S EXCEPT !.CurrentX =
                          @ + (IF HasCharWidth(Font) THEN Font.char_width[ch - 32]
                                                         ELSE Font.width)],
          mem |-> ssd1306_WriteCharLoop(m, S, ch, Font, color, 0)]

\* ssd1306_SetCursor
ssd1306_SetCursor(S, x, y) == [S EXCEPT !.CurrentX = x, !.CurrentY = y]

\* the two loops of dispWriteChar from pixel k on
RECURSIVE dispWriteCharLoop(_, _, _, _, _, _)
dispWriteCharLoop(d, m, ch, font, color, k) ==
    IF k >= font.FontWidth * font.FontHeight THEN m
    ELSE LET i == k \div font.FontWidth
             j == k % font.FontWidth
             character == font.data[(ch - 32) * font.FontHeight + i]
             c == IF GlyphInk(character, j) THEN color ELSE dispNotColor(color)
         IN  dispWriteCharLoop(d, dispDrawPixel(d, m, d.currentX + j, d.currentY + i, c),
                               ch, font, color, k + 1)

\* the pixels dispWriteChar hands to dispDrawPixel
dispWriteCharPixels(d, font) ==
    {<<d.currentX + j, d.currentY + i>> :
        j \in 0..font.FontWidth - 1, i \in 0..font.FontHeight - 1}

\* the checks of dispWriteChar: TRUE when it returns 0 without drawing
dispWriteCharRejects(d, ch, font) ==
    \/ ch < 32 \/ ch > 126
    \/ SSD1309_WIDTH < d.currentX + font.FontWidth
    \/ SSD1309_HEIGHT < d.currentY + font.FontHeight

\* dispWriteChar: the return value, the display context and memory after it
dispWriteChar(d, m, ch, font, color) ==
    IF dispWriteCharRejects(d, ch, font) THEN [ret |-> 0, disp |-> d, mem |-> m]
    ELSE [ret |-> ch,
          disp |-> [dispDrawPixelsCtx(d, dispWriteCharPixels(d, font))
                        EXCEPT !.currentX = (@ + font.FontWidth) % 256],
          mem |-> dispWriteCharLoop(d, m, ch, font, color, 0)]

\* dispSetCursor
dispSetCursor(d, x, y) == [d EXCEPT !.currentX = x, !.currentY = y]

\* the uint8_t byte of the bitmap loops when they test column i of row j: loaded
\* from bitmap[j * byteWidth + i / 8] when i & 7 is 0, shifted left once per
\* column after that
BitmapByte(bitmap, w, i, j) ==
    (bitmap[j * ((w + 7) \div 8) + i \div 8] * 2^(i % 8)) % 256

\* byte & 0x80
BitmapInk(bitmap, w, i, j) == BitmapByte(bitmap, w, i, j) \div 128 = 1

\* the coordinates the loops of ssd1306_DrawBitmap and dispDrawBitmap hand to the
\* pixel routine: x + i as an int, y as the uint8_t the loop increments
BitmapPixels(x, y, bitmap, w, h) ==
    {<<x + i, (y + j) % 256>> :
        <<i, j>> \in {q \in (0..w - 1) \X (0..h - 1) : BitmapInk(bitmap, w, q[1], q[2])}}

\* memory after ssd1306_DrawBitmap(x, y, bitmap, w, h, color)
ssd1306_DrawBitmap(m, x, y, bitmap, w, h, color) ==
    IF x >= SSD1306_WIDTH \/ y >= SSD1306_HEIGHT THEN m
    ELSE ssd1306_DrawPixels(m, BitmapPixels(x, y, bitmap, w, h), color)

\* the pixels dispDrawBitmap draws, none when it returns early
dispDrawBitmapPixels(coords, bitmap, w, h) ==
    IF coords.x > SSD1309_WIDTH \/ coords.y > SSD1309_HEIGHT THEN {}
    ELSE BitmapPixels(coords.x, coords.y, bitmap, w, h)

\* memory after dispDrawBitmap(coords, bitmap, w, h, color)
dispDrawBitmap(d, m, coords, bitmap, w, h, color) ==
    dispDrawPixels(d, m, dispDrawBitmapPixels(coords, bitmap, w, h), color)

\* ssd1306_NormalizeTo0_360(uint16_t par_deg)
ssd1306_NormalizeTo0_360(par_deg) ==
    IF par_deg <= 360 THEN par_deg
    ELSE IF par_deg % 360 # 0 THEN par_deg % 360 ELSE 360

\* the head of dispDrawCircleShape: TRUE when it returns before drawing
dispDrawCircleShapeReturns(radius, sweep_deg, seg_count, thickness) ==
    seg_count = 0 \/ radius = 0 \/ thickness = 0 \/ sweep_deg = 0

\* start_deg %= 360
dispDrawCircleShapeStart(start_deg) == start_deg % 360

\* if (sweep_deg > 360) sweep_deg = 360
dispDrawCircleShapeSweep(sweep_deg) == IF sweep_deg > 360 THEN 360 ELSE sweep_deg

\* fstop.c: the multipliers, scaled by 1024, and the rounding step in milliseconds
MAX_RES_MS == 100
PLUS_ONE_SIXTH == 1149
PLUS_ONE_THIRD == 1290
PLUS_HALF == 1448
PLUS_FULL == 2048
MINUS_ONE_SIXTH == 891
MINUS_ONE_THIRD == 814
MINUS_HALF == 724
MINUS_FULL == 512

\* EFStop_t
FStops == {"FSTOP_FULL", "FSTOP_HALF", "FSTOP_THIRD", "FSTOP_SIXTH"}

\* the multiplier the switch of calculateNextFStop picks
FStopMultiplier(reverse, resolution) ==
    CASE resolution = "FSTOP_FULL" -> IF reverse THEN MINUS_FULL ELSE PLUS_FULL
      [] resolution = "FSTOP_HALF" -> IF reverse THEN MINUS_HALF ELSE PLUS_HALF
      [] resolution = "FSTOP_THIRD" -> IF reverse THEN MINUS_ONE_THIRD ELSE PLUS_ONE_THIRD
      [] resolution = "FSTOP_SIXTH" -> IF reverse THEN MINUS_ONE_SIXTH ELSE PLUS_ONE_SIXTH

\* (startTime * multiplier) >> 10 with the product cut to 32 bits, which is
\* floor(startTime * multiplier / 2^10) mod 2^22; startTime is split as
\* (q1 * 2^11 + q0) * 2^10 + r so that no intermediate value passes 31 bits
MulShift10(startTime, multiplier) ==
    LET r == startTime % 2^10
        q0 == (startTime \div 2^10) % 2^11
        q1 == startTime \div 2^21
    IN  ((((q1 * multiplier) % 2^11) * 2^11) + q0 * multiplier
            + (r * multiplier) \div 2^10) % 2^22

\* calculateNextFStop: the product in uint32_t, shifted right by 10, then rounded
\* to a multiple of MAX_RES_MS, up only when the remainder is above the half
calculateNextFStop(startTime, reverse, resolution) ==
    LET newTime == MulShift10(startTime, FStopMultiplier(reverse, resolution))
        mod == newTime % MAX_RES_MS
    IN  IF mod > MAX_RES_MS \div 2 THEN newTime + (MAX_RES_MS - mod)
        ELSE IF mod # 0 THEN newTime - mod
        ELSE newTime

\* getTimeTable: the steps values written to pRes, each computed from the one before
RECURSIVE getTimeTable(_, _, _, _)
getTimeTable(startTime, reverse, steps, resolution) ==
    IF steps = 0 THEN <<>>
    ELSE LET currentTime == calculateNextFStop(startTime, reverse, resolution)
         IN  <<currentTime>> \o getTimeTable(currentTime, reverse, steps - 1, resolution)

\* the loop of reverseArray from index i on: swap array[i] and array[size - 1 - i]
RECURSIVE reverseArrayLoop(_, _, _)
reverseArrayLoop(array, size, i) ==
    IF i >= size \div 2 THEN array
    ELSE reverseArrayLoop([array EXCEPT ![i + 1] = array[size - i],
                                        ![size - i] = array[i + 1]], size, i + 1)

reverseArray(array, size) == reverseArrayLoop(array, size, 0)

\* genererateTestStrip: the 2 * steps + 1 values copied to pRes
genererateTestStrip(baseTime, steps, resolution) ==
    reverseArray(getTimeTable(baseTime, TRUE, steps, resolution), steps)
        \o <<baseTime>>
        \o getTimeTable(baseTime, FALSE, steps, resolution)

\* C integer division by 2, which truncates toward zero
CDiv2(v) == IF v >= 0 THEN v \div 2 ELSE -((-v) \div 2)

\* an error term that starts at zero (mutant of dispDrawLineErr)
dispDrawLineErrZero(dx, dy) == 0

\* the initial error term of dispDrawLine: (dx > dy ? dx : -dy) / 2
dispDrawLineErr(dx, dy) == CDiv2(IF dx > dy THEN dx ELSE -dy)

\* one pass of the while loop of dispDrawLine, on the 0-based loop variables and
\* the 1-based pixels drawn so far; done when the loop has hit its break
dispDrawLineStep(st, x1, y1, dx, dy, sx, sy) ==
    IF st.done THEN st
    ELSE LET drawn == Append(st.drawn, <<st.x + 1, st.y + 1>>)
             stepX == st.err > -dx
             stepY == st.err < dy
             errX == IF stepX THEN st.err - dy ELSE st.err
         IN  IF st.x = x1 /\ st.y = y1 THEN [st EXCEPT !.drawn = drawn, !.done = TRUE]
             ELSE [x |-> IF stepX THEN st.x + sx ELSE st.x,
                   y |-> IF stepY THEN st.y + sy ELSE st.y,
                   err |-> IF stepY THEN errX + dx ELSE errX,
                   drawn |-> drawn,
                   done |-> FALSE]

\* n passes of the loop, or fewer when it has ended
RECURSIVE dispDrawLineLoop(_, _, _, _, _, _, _, _)
dispDrawLineLoop(st, n, x1, y1, dx, dy, sx, sy) ==
    IF n = 0 THEN st
    ELSE IF n = 1 THEN dispDrawLineStep(st, x1, y1, dx, dy, sx, sy)
    ELSE LET half == dispDrawLineLoop(st, n \div 2, x1, y1, dx, dy, sx, sy)
         IN  IF half.done THEN half
             ELSE dispDrawLineLoop(half, n - n \div 2, x1, y1, dx, dy, sx, sy)

\* dispDrawLine: the pixels handed to dispDrawPixel, in order, and whether the
\* routine has returned; it returns at once when an end point is off the panel
dispDrawLineRun(start, end) ==
    IF \/ start.x < 1 \/ start.x > SSD1309_WIDTH \/ end.x < 1 \/ end.x > SSD1309_WIDTH
       \/ start.y < 1 \/ start.y > SSD1309_HEIGHT \/ end.y < 1 \/ end.y > SSD1309_HEIGHT
    THEN [x |-> start.x, y |-> start.y, err |-> 0, drawn |-> <<>>, done |-> TRUE]
    ELSE LET x0 == start.x - 1
             y0 == start.y - 1
             x1 == end.x - 1
             y1 == end.y - 1
         IN  dispDrawLineLoop([x |-> x0, y |-> y0,
                               err |-> dispDrawLineErr(Abs(x1 - x0), Abs(y1 - y0)),
                               drawn |-> <<>>, done |-> FALSE],
                              LineFuel, x1, y1, Abs(x1 - x0), Abs(y1 - y0),
                              IF x0 < x1 THEN 1 ELSE -1, IF y0 < y1 THEN 1 ELSE -1)

dispDrawFilledRectangle(d, m, start, end, color) ==
    dispDrawPixels(d, m, FillRectanglePixels(start.x, start.y, end.x, end.y,
                                             SSD1309_WIDTH, SSD1309_HEIGHT), color)

-----------------------------------------------------------------------------
(* Invocation of a registered completion callback fn with argument success.  *)
(* ctx is the context of the transfer the engine reports on (for lastCb).    *)

CallbackDisp(fn, success) ==
    IF fn = "dispDMACallback" THEN dispDMACallbackCtx(disp, success) ELSE disp

CallbackMem(fn, success) ==
    IF fn = "dispDMACallback" THEN dispDMACallbackMem(disp, mem, success) ELSE mem

CallbackXfer(fn, x, success) ==
    IF fn = "dispDMACallback" THEN dispDMACallbackXfer(disp, x, success) ELSE x

CallbackSeen(fn, c, success) ==
    IF fn = NULL THEN lastCb
    ELSE [fn |-> fn, success |-> success, transferred |-> c.transferred, len |-> c.len]

CallbackCount(fn) == IF fn = NULL \/ cbCount >= 2 THEN cbCount ELSE cbCount + 1


-----------------------------------------------------------------------------
(* i2c.c: chunk sizes *)

\* the size of a chunk after the first: min(255, len - transferred)
ChunkSize(len, transferred) ==
    IF len - transferred > I2C_MAX_NBYTES THEN I2C_MAX_NBYTES ELSE len - transferred

\* the size i2cTransferDisplayDMA programs for the first chunk: 255 whatever len is
DisplayDMAFirstChunk(len) == I2C_MAX_NBYTES

\* the size i2cTransmit programs for the first chunk
TransmitFirstChunk(len) == IF len > I2C_MAX_NBYTES THEN I2C_MAX_NBYTES ELSE len

\* transferred after a DMA transfer-complete event: CR2.NBYTES is added
TransferredAfterTC(transferred, nbytes) == transferred + (nbytes % 256)

\* a source address that is not advanced past the bytes sent (mutant of ChunkSource)
ChunkSourceNotAdvanced(pBuffer, transferred) == pBuffer

\* the DMA source address of the chunk after `transferred` bytes: pBuffer + transferred
ChunkSource(pBuffer, transferred) == Ptr(pBuffer.buf, pBuffer.off + transferred)

\* how DMA1_Channel1_IRQHandler and I2C2_IRQHandler start the chunks after the first
DMANextChunkGen == "START"
I2C2NextChunkGen == "RESTART"

\* TXIS events the peripheral raises for a chunk of n bytes: one per byte it still
\* needs in TXDR; i2cTransmit has preloaded TXDR with the first byte of the first chunk
TxisEvents(n, preloaded) == IF preloaded /\ n > 0 THEN n - 1 ELSE n

-----------------------------------------------------------------------------
(* i2c.c: i2cTransferDisplayDMA(&xfer[c]), entered with the contexts as in x *)

i2cTransferDisplayDMA(c, x) ==
    LET n == DisplayDMAFirstChunk(x[c].len)
    IN  /\ eng' = [eng EXCEPT !.g_pCurrentTransfer_I2C2 = c]
        /\ xfer' = [x EXCEPT ![c].transferred = 0]
        /\ dma' = [en |-> TRUE, buf |-> x[c].pBuffer.buf, off |-> x[c].pBuffer.off,
                   len |-> n]
        /\ i2c' = [i2c EXCEPT ![2].nbytes = n]
        /\ wire' = <<Chunk("I2C2/DMA1", x[c].pBuffer.off, n, "START")>>
        /\ lastCb' = NoCb
        /\ cbCount' = 0

(* spi.h declares spiTransferBlockDMA and no file defines it.  It is modelled *)
(* as the transfer engine is specified: the first chunk of at most 255 bytes  *)
(* is programmed on DMA1 channel 1, which spiInitDisplayDMA routes to SPI2.   *)
spiTransferBlockDMA(c, x) ==
    LET n == ChunkSize(x[c].len, 0)
    IN  /\ xfer' = [x EXCEPT ![c].transferred = 0]
        /\ dma' = [en |-> TRUE, buf |-> x[c].pBuffer.buf, off |-> x[c].pBuffer.off,
                   len |-> n]
        /\ wire' = <<Chunk("SPI2/DMA1", 0, n, "DATA")>>
        /\ lastCb' = NoCb
        /\ cbCount' = 0
        /\ UNCHANGED <<eng, i2c>>

-----------------------------------------------------------------------------
(* display.c: the operations of the main context *)

DispDrawPixel(pixel, color) ==
    /\ ~halted
    /\ disp.pFrontBuffer # NULL
    /\ IF DrawPixelRejects(pixel)
       THEN UNCHANGED <<disp, mem>>
       ELSE /\ mem' = dispDrawPixelMem(disp, mem, pixel, color)
            /\ disp' = [disp EXCEPT !.fbModified = TRUE]
    /\ lastOp' = "dispDrawPixel"
    /\ UNCHANGED <<xfer, eng, g_framerateCallback, dma, i2c, wire, lastCb, cbCount, halted, SSD1306, cmd, call, spi, panel, draw, tim>>

ToggleDisplay(enable) ==
    /\ ~halted
    /\ disp.pFrontBuffer # NULL
    /\ disp' = toggleDisplayCtx(disp, enable)
    /\ cmd' = toggleDisplayCommands(enable)
    /\ lastOp' = "toggleDisplay"
    /\ UNCHANGED <<mem, xfer, eng, g_framerateCallback, dma, i2c, wire, lastCb, cbCount,
                   halted, SSD1306, call, spi, panel, draw, tim>>

(* timer.c TIM14_IRQHandler: the update event calls the registered framerate   *)
(* callback, which is dispSyncFramebuffer or nothing.                          *)
TIM14_IRQHandler ==
    /\ ~halted
    /\ g_framerateCallback = "dispSyncFramebuffer"
    /\ IF SyncGate(disp)
       THEN /\ disp' = [disp EXCEPT !.DMAInProgress = TRUE]
            /\ IF disp.mode = "MODE_I2C"
               THEN i2cTransferDisplayDMA("disp", [xfer EXCEPT !["disp"].transferred = 0])
               ELSE spiTransferBlockDMA("disp", [xfer EXCEPT !["disp"].transferred = 0])
            /\ panel' = [panel EXCEPT !.acc = {},
                                      !.issued = ChunkContent(mem, dma'.buf, dma'.off,
                                                              dma'.len)]
            /\ lastOp' = "dispSyncFramebuffer:start"
       ELSE /\ lastOp' = "dispSyncFramebuffer:return"
            /\ UNCHANGED <<disp, xfer, eng, dma, i2c, wire, lastCb, cbCount, panel, draw, tim>>
    /\ UNCHANGED <<mem, g_framerateCallback, halted, SSD1306, cmd, call, spi, draw, tim>>

-----------------------------------------------------------------------------
(* i2c.c DMA1_Channel1_IRQHandler.  The handler serves DMA1 channel 1 for the *)
(* I2C2 display path and, there being no other handler, for the SPI2 path.    *)

\* transfer complete, g_pCurrentTransfer_I2C2 set
(* The bytes the DMA has read of the chunk whose completion event is served:  *)
(* each byte is read at some moment between the start of the chunk and the    *)
(* event; the two extremes are the content when the chunk was issued and the  *)
(* content now.                                                               *)
ChunkRead == {panel.issued, ChunkContent(mem, dma.buf, dma.off, dma.len)}

DMA_TC_Chunk ==
    LET c == eng.g_pCurrentTransfer_I2C2
        t == TransferredAfterTC(xfer[c].transferred, i2c[2].nbytes)
        x1 == [xfer EXCEPT ![c].transferred = t]
        n == ChunkSize(x1[c].len, t)
        src == ChunkSource(x1[c].pBuffer, t)
        fn == eng.g_fnI2cDMACallback
    IN  /\ ~halted
        /\ dma.en
        /\ c # NULL
        /\ IF t < x1[c].len
           THEN /\ xfer' = x1
                /\ dma' = [en |-> TRUE, buf |-> src.buf, off |-> src.off, len |-> n]
                /\ i2c' = [i2c EXCEPT ![2].nbytes = n]
                /\ wire' = Append(wire, Chunk("I2C2/DMA1", src.off, n, DMANextChunkGen))
                /\ \E read \in ChunkRead :
                      panel' = [panel EXCEPT !.acc = @ \cup read,
                                            !.issued = ChunkContent(mem, src.buf, src.off, n)]
                /\ UNCHANGED <<disp, mem, lastCb, cbCount>>
           ELSE /\ dma' = DmaOff
                /\ i2c' = I2cOff
                /\ disp' = CallbackDisp(fn, TRUE)
                /\ mem' = CallbackMem(fn, TRUE)
                /\ xfer' = CallbackXfer(fn, x1, TRUE)
                /\ lastCb' = CallbackSeen(fn, x1[c], TRUE)
                /\ cbCount' = CallbackCount(fn)
                /\ \E read \in ChunkRead :
                      panel' = [issued |-> {}, acc |-> {}, frame |-> panel.acc \cup read]
                /\ UNCHANGED wire
        /\ lastOp' = "DMA1_Channel1_IRQHandler:TC"
        /\ UNCHANGED <<eng, g_framerateCallback, halted, SSD1306, cmd, call, spi, draw, tim>>

(* transfer complete with g_pCurrentTransfer_I2C2 still NULL (the SPI path     *)
(* never sets it): the handler disables the channel and then reads and writes  *)
(* through the null pointer.  The outcomes: the write faults; or the garbage   *)
(* read compares below the garbage len and a chunk is re-armed from a wild     *)
(* address; or it does not and the null g_fnI2cDMACallback is skipped.         *)
DMA_TC_NullCtx ==
    /\ ~halted
    /\ dma.en
    /\ eng.g_pCurrentTransfer_I2C2 = NULL
    /\ \/ /\ halted' = TRUE
          /\ dma' = DmaOff
       \/ /\ halted' = FALSE
          /\ dma' = [en |-> TRUE, buf |-> "wild", off |-> 0, len |-> I2C_MAX_NBYTES]
       \/ /\ halted' = FALSE
          /\ dma' = DmaOff
    /\ lastOp' = "DMA1_Channel1_IRQHandler:TC"
    /\ UNCHANGED <<disp, mem, xfer, eng, g_framerateCallback, i2c, wire, lastCb, cbCount,
                   SSD1306, cmd, call, spi, panel, draw, tim>>

\* transfer error: the hardware has disabled the faulty channel
DMA_TE ==
    LET c == eng.g_pCurrentTransfer_I2C2
        fn == eng.g_fnI2cDMACallback
    IN  /\ ~halted
        /\ dma.en
        /\ dma' = DmaOff
        /\ i2c' = I2cOff
        /\ disp' = CallbackDisp(fn, FALSE)
        /\ mem' = CallbackMem(fn, FALSE)
        /\ xfer' = CallbackXfer(fn, xfer, FALSE)
        /\ lastCb' = CallbackSeen(fn, IF c = NULL THEN NoCb ELSE xfer[c], FALSE)
        /\ cbCount' = CallbackCount(fn)
        /\ panel' = [panel EXCEPT !.issued = {}, !.acc = {}]
        /\ lastOp' = "DMA1_Channel1_IRQHandler:TE"
        /\ UNCHANGED <<eng, g_framerateCallback, wire, halted, SSD1306, cmd, call, spi, draw, tim>>


-----------------------------------------------------------------------------
(* The display session: the state when initBoard and initDisplay(mode) have   *)
(* returned, then draw calls and toggleDisplay in the main context against    *)
(* the framerate tick and the DMA events.                                     *)

InitAfter(displayMode) ==
    /\ disp = initDisplay(displayMode)
    /\ mem = {}
    /\ xfer = [c \in CtxIds |-> IF c = "disp" THEN initTransferContext ELSE Ctx("app", 0)]
    /\ eng = initEngine(displayMode)
    /\ dma = DmaOff
    /\ i2c = I2cOff
    /\ wire = <<>>
    /\ lastCb = NoCb
    /\ cbCount = 0
    /\ lastOp = "initDisplay"
    /\ halted = FALSE
    /\ SSD1306 = InitSSD1306
    /\ cmd = initDisplayCommands
    /\ spi = SpiIdle
    /\ panel = NoFrame
    /\ draw = DrawIdle
    /\ tim = TimReset
    /\ call = NoCall

\* the program as main.c and initDisplay wire it
Init ==
    \E displayMode \in Modes :
        /\ InitAfter(displayMode)
        /\ g_framerateCallback = initFramerateCallback(displayMode)

\* the same with dispSyncFramebuffer on the framerate timer in either mode
InitDisp ==
    \E displayMode \in Modes :
        /\ InitAfter(displayMode)
        /\ g_framerateCallback = "dispSyncFramebuffer"

NextDisp ==
    \/ \E pixel \in Pixels, color \in Colors : DispDrawPixel(pixel, color)
    \/ \E enable \in BOOLEAN : ToggleDisplay(enable)
    \/ TIM14_IRQHandler
    \/ DMA_TC_Chunk
    \/ DMA_TC_NullCtx
    \/ DMA_TE

Spec == Init /\ [][NextDisp]_vars

SpecDisp == InitDisp /\ [][NextDisp]_vars

(* The session as initDisplay itself wires it (Init): the framerate callback   *)
(* is registered in the SPI branch only, and g_pCurrentTransfer_I2C2 stays     *)
(* NULL, so the chunk branch of the DMA handler is never entered and is left   *)
(* out of the next-state relation.  The framerate timer keeps ticking and the  *)
(* hardware raises a completion or an error event for every chunk issued.      *)
NextWired ==
    \/ \E pixel \in Pixels, color \in Colors : DispDrawPixel(pixel, color)
    \/ \E enable \in BOOLEAN : ToggleDisplay(enable)
    \/ TIM14_IRQHandler
    \/ DMA_TC_NullCtx
    \/ DMA_TE

FairSpecWired ==
    /\ Init /\ [][NextWired]_vars
    /\ WF_vars(TIM14_IRQHandler)
    /\ WF_vars(DMA_TC_NullCtx \/ DMA_TE)

(* toggleDisplay step by step.  dispWriteCommand fills buf and calls            *)
(* spiSendCommand, which pulls the D/C line low (toggleDisplayDataCommand(true)), *)
(* shifts the bytes out one by one (spiWriteData), and raises the line again;  *)
(* toggleDisplay then stores isEnabled.  Interrupt handlers run between the    *)
(* steps.                                                                      *)
ToggleDisplayEnter(enable) ==
    /\ ~halted
    /\ spi.pc = "idle"
    /\ spi' = [spi EXCEPT !.dc = "command", !.pc = "write", !.enable = enable,
                          !.todo = toggleDisplayCommands(enable)]
    /\ cmd' = <<>>
    /\ lastOp' = "spiSendCommand:select"
    /\ UNCHANGED <<disp, mem, xfer, eng, g_framerateCallback, dma, i2c, wire, lastCb,
                   cbCount, halted, SSD1306, call, panel, draw, tim>>

\* one pass of the loop of spiWriteData: spiRxTx shifts the next byte out
SpiWriteByte ==
    /\ ~halted
    /\ spi.pc = "write"
    /\ spi' = [spi EXCEPT !.todo = Tail(@),
                          !.pc = IF Len(spi.todo) = 1 THEN "release" ELSE "write",
                          !.bus = [kind |-> "command", dc |-> spi.dc]]
    /\ cmd' = Append(cmd, Head(spi.todo))
    /\ lastOp' = "spiWriteData"
    /\ UNCHANGED <<disp, mem, xfer, eng, g_framerateCallback, dma, i2c, wire, lastCb,
                   cbCount, halted, SSD1306, call, panel, draw, tim>>

\* toggleDisplayDataCommand(false), the return to toggleDisplay, and its store
ToggleDisplayReturn ==
    /\ ~halted
    /\ spi.pc = "release"
    /\ spi' = [spi EXCEPT !.dc = "data", !.pc = "idle"]
    /\ disp' = toggleDisplayCtx(disp, spi.enable)
    /\ lastOp' = "toggleDisplay"
    /\ UNCHANGED <<mem, xfer, eng, g_framerateCallback, dma, i2c, wire, lastCb, cbCount,
                   halted, SSD1306, cmd, call, panel, draw, tim>>

(* The DMA channel that spiInitDisplayDMA routes to SPI2 TX shifts a byte of   *)
(* the chunk in flight onto the bus: between the start of a chunk and its      *)
(* completion event its bytes are on the bus, at the level the D/C line has.   *)
DMA_Byte ==
    /\ ~halted
    /\ dma.en /\ dma.len > 0
    /\ wire # <<>> /\ wire[Len(wire)].bus = "SPI2/DMA1"
    /\ spi' = [spi EXCEPT !.bus = [kind |-> "framebuffer", dc |-> spi.dc]]
    /\ lastOp' = "DMA1:byte"
    /\ UNCHANGED <<disp, mem, xfer, eng, g_framerateCallback, dma, i2c, wire, lastCb,
                   cbCount, halted, SSD1306, cmd, call, panel, draw, tim>>

\* the main context draws only between two calls of toggleDisplay
MainDrawPixel(pixel, color) ==
    /\ spi.pc = "idle"
    /\ DispDrawPixel(pixel, color)

NextCommandLine ==
    \/ \E pixel \in Pixels, color \in Colors : MainDrawPixel(pixel, color)
    \/ \E enable \in BOOLEAN : ToggleDisplayEnter(enable)
    \/ SpiWriteByte
    \/ ToggleDisplayReturn
    \/ TIM14_IRQHandler
    \/ DMA_Byte
    \/ DMA_TC_NullCtx
    \/ DMA_TE

\* the session as initDisplay wires it, with the command path step by step
SpecCommandLine == Init /\ [][NextCommandLine]_vars

(* dispDrawPixel one memory access at a time, as the interrupts see it: the   *)
(* read of g_displayContext.pFrontBuffer (the early return before it), the    *)
(* read of the byte, the write of the byte, the write of fbModified.          *)
DrawReadFront(pixel, color) ==
    /\ ~halted
    /\ draw.pc = "idle"
    /\ disp.pFrontBuffer # NULL
    /\ IF DrawPixelRejects(pixel)
       THEN /\ lastOp' = "dispDrawPixel"
            /\ UNCHANGED draw
       ELSE /\ draw' = [pc |-> "read", pixel |-> pixel, color |-> color,
                        front |-> disp.pFrontBuffer, byte |-> {}]
            /\ lastOp' = "dispDrawPixel:front"
    /\ UNCHANGED <<disp, mem, xfer, eng, g_framerateCallback, dma, i2c, wire, lastCb,
                   cbCount, halted, SSD1306, cmd, call, spi, panel, tim>>

\* the byte the call in progress addresses, through the pointer it has read
DrawAddr == DrawPixelAddr([pFrontBuffer |-> draw.front], draw.pixel)

DrawReadByte ==
    /\ draw.pc = "read"
    /\ draw' = [draw EXCEPT !.pc = "write", !.byte = {b \in 0..7 : <<DrawAddr, b>> \in mem}]
    /\ lastOp' = "dispDrawPixel:read"
    /\ UNCHANGED <<disp, mem, xfer, eng, g_framerateCallback, dma, i2c, wire, lastCb,
                   cbCount, halted, SSD1306, cmd, call, spi, panel, tim>>

\* the value written back: the byte read, with the bit set or cleared
DrawNewByte ==
    IF draw.color = "COLOR_WHITE"
    THEN draw.byte \cup {DrawPixelBit(draw.pixel)}
    ELSE draw.byte \ {DrawPixelBit(draw.pixel)}

DrawWriteByte ==
    /\ draw.pc = "write"
    /\ mem' = {q \in mem : q[1] # DrawAddr} \cup {<<DrawAddr, b>> : b \in DrawNewByte}
    /\ draw' = [draw EXCEPT !.pc = "flag"]
    /\ lastOp' = "dispDrawPixel:write"
    /\ UNCHANGED <<disp, xfer, eng, g_framerateCallback, dma, i2c, wire, lastCb,
                   cbCount, halted, SSD1306, cmd, call, spi, panel, tim>>

DrawSetModified ==
    /\ draw.pc = "flag"
    /\ disp' = [disp EXCEPT !.fbModified = TRUE]
    /\ draw' = DrawIdle
    /\ lastOp' = "dispDrawPixel"
    /\ UNCHANGED <<mem, xfer, eng, g_framerateCallback, dma, i2c, wire, lastCb,
                   cbCount, halted, SSD1306, cmd, call, spi, panel, tim>>

NextDraw ==
    \/ \E pixel \in Pixels, color \in Colors : DrawReadFront(pixel, color)
    \/ DrawReadByte
    \/ DrawWriteByte
    \/ DrawSetModified
    \/ TIM14_IRQHandler
    \/ DMA_TC_Chunk
    \/ DMA_TC_NullCtx
    \/ DMA_TE

SpecDraw == InitDisp /\ [][NextDraw]_vars

\* dispSetCursor in the main context
DispSetCursor(x, y) ==
    /\ ~halted
    /\ disp' = dispSetCursor(disp, x, y)
    /\ lastOp' = "dispSetCursor"
    /\ UNCHANGED <<mem, xfer, eng, g_framerateCallback, dma, i2c, wire, lastCb, cbCount,
                   halted, SSD1306, cmd, call, spi, panel, draw, tim>>

\* the cursor positions set: the origin, one inside the panel, one on the last cell
Cursors == {<<0, 0>>, <<5, 7>>, <<SSD1309_WIDTH - 1, SSD1309_HEIGHT - 1>>}

NextToggle ==
    \/ NextDisp
    \/ \E c \in Cursors : DispSetCursor(c[1], c[2])

\* the display session with the text cursor moved between the other calls
SpecToggle == InitDisp /\ [][NextToggle]_vars

\* the hardware raises a completion or an error event for every chunk issued
FairSpecDisp ==
    SpecDisp /\ WF_vars(DMA_TC_Chunk \/ DMA_TC_NullCtx \/ DMA_TE)


-----------------------------------------------------------------------------
(* i2c.c: the byte-wise path, i2cTransmit and the I2C1 / I2C2 handlers *)

CurrentTransfer(p) ==
    IF p = 1 THEN eng.g_pCurrentTransfer_I2C1 ELSE eng.g_pCurrentTransfer_I2C2

BusName(p) == IF p = 1 THEN "I2C1" ELSE "I2C2"

\* i2cTransmit(I2Cp, &xfer[c]), entered with the contexts as in x
i2cTransmit(p, c, x) ==
    LET n == TransmitFirstChunk(x[c].len)
    IN  /\ xfer' = [x EXCEPT ![c].pBuffer.off = @ + 1, ![c].transferred = 0]
        /\ eng' = IF p = 1 THEN [eng EXCEPT !.g_pCurrentTransfer_I2C1 = c]
                           ELSE [eng EXCEPT !.g_pCurrentTransfer_I2C2 = c]
        /\ i2c' = [i2c EXCEPT ![p] = [nbytes |-> n, itActive |-> TRUE,
                                      need |-> TxisEvents(n, TRUE), nacks |-> 0]]
        /\ wire' = <<Chunk(BusName(p), 0, n, "START")>>
        /\ lastCb' = NoCb
        /\ cbCount' = 0

\* TXIS on either peripheral: count the byte and write the next one to TXDR
I2C_TXIS(p) ==
    LET c == CurrentTransfer(p)
    IN  /\ ~halted
        /\ i2c[p].itActive
        /\ i2c[p].need > 0
        /\ xfer' = [xfer EXCEPT ![c].transferred = @ + 1, ![c].pBuffer.off = @ + 1]
        /\ i2c' = [i2c EXCEPT ![p].need = @ - 1]
        /\ lastOp' = "I2C_IRQHandler:TXIS"
        /\ UNCHANGED <<disp, mem, eng, g_framerateCallback, dma, wire, lastCb, cbCount,
                       halted, SSD1306, cmd, call, spi, panel, draw, tim>>

\* the registered byte-wise callback is invoked and the peripheral is left idle
RegularCallback(p, success, op) ==
    LET c == CurrentTransfer(p)
        fn == eng.g_fnI2cRegularCallback
    IN  /\ i2c' = I2cOff
        /\ disp' = CallbackDisp(fn, success)
        /\ mem' = CallbackMem(fn, success)
        /\ xfer' = CallbackXfer(fn, xfer, success)
        /\ lastCb' = CallbackSeen(fn, xfer[c], success)
        /\ cbCount' = CallbackCount(fn)
        /\ lastOp' = op
        /\ UNCHANGED <<eng, g_framerateCallback, dma, wire, halted, SSD1306, cmd, call, spi, panel, draw, tim>>

\* I2C1_IRQHandler, STOP: every STOP is reported as the end of the transfer
I2C1_STOP ==
    /\ ~halted
    /\ i2c[1].itActive
    /\ i2c[1].need = 0
    /\ RegularCallback(1, TRUE, "I2C1_IRQHandler:STOP")

\* I2C1_IRQHandler, neither TXIS nor STOP: an error flag
I2C1_Error ==
    /\ ~halted
    /\ i2c[1].itActive
    /\ RegularCallback(1, FALSE, "I2C1_IRQHandler:error")

(* I2C2_IRQHandler, NACK: the flag is cleared; the peripheral ends the chunk    *)
(* with a STOP.  The model lets the target refuse the address of a chunk, at   *)
(* most MaxNack times in a transfer.                                           *)
I2C2_NACK ==
    /\ ~halted
    /\ i2c[2].itActive
    /\ i2c[2].nacks < MaxNack
    /\ i2c[2].need > 0
    /\ i2c[2].need = TxisEvents(i2c[2].nbytes, Len(wire) = 1)
    /\ i2c' = [i2c EXCEPT ![2].need = 0, ![2].nacks = @ + 1]
    /\ lastOp' = "I2C2_IRQHandler:NACK"
    /\ UNCHANGED <<disp, mem, xfer, eng, g_framerateCallback, dma, wire, lastCb, cbCount,
                   halted, SSD1306, cmd, call, spi, panel, draw, tim>>

\* I2C2_IRQHandler, STOP: the next chunk as a restart, or the end of the transfer
I2C2_STOP ==
    LET c == CurrentTransfer(2)
        n == ChunkSize(xfer[c].len, xfer[c].transferred)
    IN  /\ ~halted
        /\ i2c[2].itActive
        /\ i2c[2].need = 0
        /\ IF xfer[c].transferred < xfer[c].len
           THEN /\ i2c' = [i2c EXCEPT ![2].nbytes = n, ![2].need = TxisEvents(n, FALSE)]
                /\ wire' = Append(wire, Chunk("I2C2", xfer[c].pBuffer.off, n,
                                              I2C2NextChunkGen))
                /\ lastOp' = "I2C2_IRQHandler:STOP"
                /\ UNCHANGED <<disp, mem, xfer, eng, g_framerateCallback, dma, lastCb,
                               cbCount, halted, SSD1306, cmd, call, spi, panel, draw, tim>>
           ELSE RegularCallback(2, TRUE, "I2C2_IRQHandler:STOP")

\* I2C2_IRQHandler, none of NACK, TXIS and STOP: an error flag
I2C2_Error ==
    /\ ~halted
    /\ i2c[2].itActive
    /\ RegularCallback(2, FALSE, "I2C2_IRQHandler:error")

-----------------------------------------------------------------------------
(* The engine under a caller of its API: the caller fills its context with a  *)
(* length and the start of its buffer and starts a transfer.  In SpecEngine   *)
(* it does so only when nothing is in flight; in SpecMisuse also before the   *)
(* previous DMA transfer has completed.                                       *)

AppTransferDisplayDMA(len) ==
    /\ ~halted
    /\ Idle
    /\ i2cTransferDisplayDMA("app", [xfer EXCEPT !["app"] = Ctx("app", len)])
    /\ lastOp' = "i2cTransferDisplayDMA"
    /\ UNCHANGED <<disp, mem, g_framerateCallback, halted, SSD1306, cmd, call, spi, panel, draw, tim>>

AppTransmit(p, len) ==
    /\ ~halted
    /\ Idle
    /\ i2cTransmit(p, "app", [xfer EXCEPT !["app"] = Ctx("app", len)])
    /\ lastOp' = "i2cTransmit"
    /\ UNCHANGED <<disp, mem, g_framerateCallback, dma, halted, SSD1306, cmd, call, spi, panel, draw, tim>>

(* i2cTransferDisplayDMA called again, on the context in flight, while a DMA   *)
(* chunk is outstanding.  The context and CR2 are rewritten; the DMA address   *)
(* and length registers are written with the channel enabled, which the       *)
(* controller either ignores or takes.                                        *)
AppRestartInFlight ==
    LET c == eng.g_pCurrentTransfer_I2C2
        n == DisplayDMAFirstChunk(xfer[c].len)
    IN  /\ ~halted
        /\ dma.en
        /\ c # NULL
        /\ xfer' = [xfer EXCEPT ![c].transferred = 0]
        /\ i2c' = [i2c EXCEPT ![2].nbytes = n]
        /\ \/ dma' = dma
           \/ dma' = [en |-> TRUE, buf |-> xfer[c].pBuffer.buf,
                      off |-> xfer[c].pBuffer.off, len |-> n]
        /\ wire' = <<Chunk("I2C2/DMA1", 0, n, "START")>>
        /\ lastCb' = NoCb
        /\ cbCount' = 0
        /\ lastOp' = "i2cTransferDisplayDMA:inflight"
        /\ UNCHANGED <<disp, mem, eng, g_framerateCallback, halted, SSD1306, cmd, call, spi, panel, draw, tim>>

\* the engine as a caller has set it up: i2cInitDisplayDMA(cb), i2cRegisterCallback(cb)
InitEngine ==
    /\ disp = ZeroDisplayContext
    /\ mem = {}
    /\ xfer = [c \in CtxIds |-> Ctx(IF c = "disp" THEN NULL ELSE "app", 0)]
    /\ eng = [g_fnI2cDMACallback |-> "appCallback",
              g_fnSpiDMACallback |-> NULL,
              g_fnI2cRegularCallback |-> "appCallback",
              g_pCurrentTransfer_I2C1 |-> NULL,
              g_pCurrentTransfer_I2C2 |-> NULL]
    /\ g_framerateCallback = NULL
    /\ dma = DmaOff
    /\ i2c = I2cOff
    /\ wire = <<>>
    /\ lastCb = NoCb
    /\ cbCount = 0
    /\ lastOp = "init"
    /\ halted = FALSE
    /\ SSD1306 = InitSSD1306
    /\ cmd = <<>>
    /\ spi = SpiIdle
    /\ panel = NoFrame
    /\ draw = DrawIdle
    /\ tim = TimReset
    /\ call = NoCall

NextEngine ==
    \/ \E len \in Lengths : AppTransferDisplayDMA(len)
    \/ \E p \in 1..2, len \in ITLengths : AppTransmit(p, len)
    \/ DMA_TC_Chunk
    \/ DMA_TE
    \/ \E p \in 1..2 : I2C_TXIS(p)
    \/ I2C1_STOP
    \/ I2C1_Error
    \/ I2C2_NACK
    \/ I2C2_STOP
    \/ I2C2_Error

SpecEngine == InitEngine /\ [][NextEngine]_vars

NextMisuse == NextEngine \/ AppRestartInFlight

SpecMisuse == InitEngine /\ [][NextMisuse]_vars


-----------------------------------------------------------------------------
(* The drawing routines called from the main context, at most MaxCalls in a   *)
(* row on the buffers as initDisplay and ssd1306_Init left them.  No transfer *)
(* is started meanwhile.  call records the routine, its arguments, its return *)
(* value and whether the call changed memory.                                 *)

SSD1306_Colors == {"Black", "White"}

\* coordinates handed to the pixel routines: the first and last of the panel in
\* either convention, the first beyond it, and the ends of the uint8_t range
PixelXs == {0, 1, SSD1309_WIDTH - 1, SSD1309_WIDTH, SSD1309_WIDTH + 1, 255}
PixelYs == {0, 1, 9, SSD1309_HEIGHT - 1, SSD1309_HEIGHT, SSD1309_HEIGHT + 1, 255}

\* what every call of a drawing routine leaves alone
DrawFrame ==
    UNCHANGED <<xfer, eng, g_framerateCallback, dma, i2c, wire, lastCb, cbCount, halted,
                cmd, spi, panel, draw, tim>>

CallDispDrawPixel(x, y, color) ==
    /\ call.n < MaxCalls
    /\ mem' = dispDrawPixel(disp, mem, x, y, color)
    /\ disp' = IF DrawPixelAccepts(x, y) THEN [disp EXCEPT !.fbModified = TRUE] ELSE disp
    /\ call' = [n |-> call.n + 1, fn |-> "dispDrawPixel", x |-> x, y |-> y,
                color |-> color, changed |-> mem' # mem]
    /\ lastOp' = "dispDrawPixel"
    /\ UNCHANGED SSD1306
    /\ DrawFrame

CallSsd1306DrawPixel(x, y, color) ==
    /\ call.n < MaxCalls
    /\ mem' = ssd1306_DrawPixel(mem, x, y, color)
    /\ call' = [n |-> call.n + 1, fn |-> "ssd1306_DrawPixel", x |-> x, y |-> y,
                color |-> color, changed |-> mem' # mem]
    /\ lastOp' = "ssd1306_DrawPixel"
    /\ UNCHANGED <<disp, SSD1306>>
    /\ DrawFrame

NextPixel ==
    \/ \E x \in PixelXs, y \in PixelYs, color \in Colors : CallDispDrawPixel(x, y, color)
    \/ \E x \in PixelXs, y \in PixelYs, color \in SSD1306_Colors :
          CallSsd1306DrawPixel(x, y, color)

SpecPixel == Init /\ [][NextPixel]_vars

\* the rectangles filled, as <<x1, y1, x2, y2>> over 0-based panel pixels: the
\* rectangle (10,10)-(20,20) with its corners in three orders, the first pixel
\* alone, and a rectangle that ends on the last column and the last row
Rects ==
    { <<10, 10, 20, 20>>, <<20, 20, 10, 10>>, <<20, 10, 10, 20>>, <<0, 0, 0, 0>>,
      <<SSD1309_WIDTH - 8, SSD1309_HEIGHT - 4, SSD1309_WIDTH - 1, SSD1309_HEIGHT - 1>> }

\* dispDrawFilledRectangle on the rectangle r, in the 1-based coordinates of display.c
CallDispDrawFilledRectangle(r, color) ==
    LET start == [x |-> r[1] + 1, y |-> r[2] + 1]
        end == [x |-> r[3] + 1, y |-> r[4] + 1]
        ps == FillRectanglePixels(start.x, start.y, end.x, end.y, SSD1309_WIDTH,
                                  SSD1309_HEIGHT)
    IN  /\ call.n < MaxCalls
        /\ mem' = dispDrawFilledRectangle(disp, mem, start, end, color)
        /\ disp' = dispDrawPixelsCtx(disp, ps)
        /\ call' = [n |-> call.n + 1, fn |-> "dispDrawFilledRectangle", x1 |-> start.x,
                    y1 |-> start.y, x2 |-> end.x, y2 |-> end.y, color |-> color,
                    changed |-> mem' # mem]
        /\ lastOp' = "dispDrawFilledRectangle"
        /\ UNCHANGED SSD1306
        /\ DrawFrame

CallSsd1306FillRectangle(r, color) ==
    /\ call.n < MaxCalls
    /\ mem' = ssd1306_FillRectangle(mem, r[1], r[2], r[3], r[4], color)
    /\ call' = [n |-> call.n + 1, fn |-> "ssd1306_FillRectangle", x1 |-> r[1],
                y1 |-> r[2], x2 |-> r[3], y2 |-> r[4], color |-> color,
                changed |-> mem' # mem]
    /\ lastOp' = "ssd1306_FillRectangle"
    /\ UNCHANGED <<disp, SSD1306>>
    /\ DrawFrame

NextRect ==
    \/ \E r \in Rects, color \in Colors : CallDispDrawFilledRectangle(r, color)
    \/ \E r \in Rects, color \in SSD1306_Colors : CallSsd1306FillRectangle(r, color)

SpecRect == Init /\ [][NextRect]_vars

\* the lines drawn, as <<x1, y1, x2, y2>> over 0-based panel pixels: one in each
\* octant (the first is the line (0,0)-(4,2)), a single point, and the diagonal of
\* the panel from its first to its last pixel
Lines ==
    { <<0, 0, 4, 2>>, <<4, 2, 0, 0>>, <<4, 2, 9, 1>>, <<9, 1, 4, 2>>,
      <<0, 0, 3, 9>>, <<3, 9, 0, 0>>, <<4, 2, 3, 9>>, <<3, 9, 4, 2>>,
      <<5, 5, 5, 5>>,
      <<0, 0, SSD1309_WIDTH - 1, SSD1309_HEIGHT - 1>> }

\* dispDrawLine on the line l, in the 1-based coordinates of display.c
CallDispDrawLine(l, color) ==
    LET start == [x |-> l[1] + 1, y |-> l[2] + 1]
        end == [x |-> l[3] + 1, y |-> l[4] + 1]
        run == dispDrawLineRun(start, end)
    IN  /\ call.n < MaxCalls
        /\ mem' = dispDrawPixels(disp, mem, Range(run.drawn), color)
        /\ disp' = dispDrawPixelsCtx(disp, Range(run.drawn))
        /\ call' = [n |-> call.n + 1, fn |-> "dispDrawLine", x1 |-> start.x,
                    y1 |-> start.y, x2 |-> end.x, y2 |-> end.y, color |-> color,
                    drawn |-> run.drawn, returned |-> run.done,
                    changed |-> mem' # mem]
        /\ lastOp' = "dispDrawLine"
        /\ UNCHANGED SSD1306
        /\ DrawFrame

CallSsd1306Line(l, color) ==
    LET run == ssd1306_LineRun(l[1], l[2], l[3], l[4])
    IN  /\ call.n < MaxCalls
        /\ mem' = ssd1306_DrawPixels(mem, Range(run.drawn), color)
        /\ call' = [n |-> call.n + 1, fn |-> "ssd1306_Line", x1 |-> l[1], y1 |-> l[2],
                    x2 |-> l[3], y2 |-> l[4], color |-> color,
                    drawn |-> run.drawn, returned |-> run.done,
                    changed |-> mem' # mem]
        /\ lastOp' = "ssd1306_Line"
        /\ UNCHANGED <<disp, SSD1306>>
        /\ DrawFrame

NextLine ==
    \/ \E l \in Lines, color \in Colors : CallDispDrawLine(l, color)
    \/ \E l \in Lines, color \in SSD1306_Colors : CallSsd1306Line(l, color)

SpecLine == Init /\ [][NextLine]_vars

\* glyph rows of the fonts written with: rows alternate between 1010... and 0101...
GlyphRows(height) ==
    [k \in 0..95 * height - 1 |-> IF k % 2 = 0 THEN 43690 ELSE 21845]

\* a FontDef: 4 columns by 9 rows, so that a glyph lies over two pages
DispFont == [FontWidth |-> 4, FontHeight |-> 9, data |-> GlyphRows(9)]

\* SSD1306_Font_t without and with a table of per-glyph widths
Ssd1306Fonts ==
    { [width |-> 4, height |-> 9, data |-> GlyphRows(9), char_width |-> NoCharWidth],
      [width |-> 4, height |-> 9, data |-> GlyphRows(9),
       char_width |-> [c \in 0..94 |-> 2 + (c % 3)]] }

\* the characters written: the ends of the printable range and their neighbours
Chars == {31, 32, 65, 126, 127}

\* the cursors set, besides the initial <<0, 0>>: inside the panel, the last
\* position a glyph fits at, and one column and one row beyond it
TextCursors ==
    { <<0, 0>>, <<10, 20>>, <<SSD1306_WIDTH - 4, SSD1306_HEIGHT - 9>>,
      <<SSD1306_WIDTH - 3, 20>>, <<10, SSD1306_HEIGHT - 8>> }

CallDispSetCursor(c) ==
    /\ call.n < MaxCalls
    /\ disp' = dispSetCursor(disp, c[1], c[2])
    /\ call' = [n |-> call.n + 1, fn |-> "dispSetCursor", x |-> c[1], y |-> c[2]]
    /\ lastOp' = "dispSetCursor"
    /\ UNCHANGED <<mem, SSD1306>>
    /\ DrawFrame

CallSsd1306SetCursor(c) ==
    /\ call.n < MaxCalls
    /\ SSD1306' = ssd1306_SetCursor(SSD1306, c[1], c[2])
    /\ call' = [n |-> call.n + 1, fn |-> "ssd1306_SetCursor", x |-> c[1], y |-> c[2]]
    /\ lastOp' = "ssd1306_SetCursor"
    /\ UNCHANGED <<mem, disp>>
    /\ DrawFrame

CallDispWriteChar(ch, color) ==
    LET res == dispWriteChar(disp, mem, ch, DispFont, color)
    IN  /\ call.n < MaxCalls
        /\ mem' = res.mem
        /\ disp' = res.disp
        /\ call' = [n |-> call.n + 1, fn |-> "dispWriteChar", ch |-> ch, color |-> color,
                    width |-> DispFont.FontWidth, height |-> DispFont.FontHeight,
                    advance |-> DispFont.FontWidth, ret |-> res.ret,
                    changed |-> mem' # mem]
        /\ lastOp' = "dispWriteChar"
        /\ UNCHANGED SSD1306
        /\ DrawFrame

CallSsd1306WriteChar(ch, Font, color) ==
    LET res == ssd1306_WriteChar(SSD1306, mem, ch, Font, color)
    IN  /\ call.n < MaxCalls
        /\ mem' = res.mem
        /\ SSD1306' = res.SSD1306
        /\ call' = [n |-> call.n + 1, fn |-> "ssd1306_WriteChar", ch |-> ch,
                    color |-> color, width |-> Font.width, height |-> Font.height,
                    advance |-> IF HasCharWidth(Font) /\ ch \in 32..126
                                THEN Font.char_width[ch - 32] ELSE Font.width,
                    ret |-> res.ret, changed |-> mem' # mem]
        /\ lastOp' = "ssd1306_WriteChar"
        /\ UNCHANGED disp
        /\ DrawFrame

NextText ==
    \/ \E c \in TextCursors : CallDispSetCursor(c)
    \/ \E c \in TextCursors : CallSsd1306SetCursor(c)
    \/ \E ch \in Chars, color \in Colors : CallDispWriteChar(ch, color)
    \/ \E ch \in Chars, Font \in Ssd1306Fonts, color \in SSD1306_Colors :
            CallSsd1306WriteChar(ch, Font, color)

SpecText == Init /\ [][NextText]_vars

\* the bitmaps drawn: every bit set, and bytes alternating 10101010 and 01010101
Bitmaps ==
    { [k \in 0..255 |-> 255], [k \in 0..255 |-> IF k % 2 = 0 THEN 170 ELSE 85] }

\* the blits, as <<x, y, w, h>> with a 0-based origin: inside the panel with a
\* width of whole bytes and not; over the right and the bottom edge; wide and
\* high enough for x + i and y to pass 255; and an origin beyond the panel
Blits ==
    { <<10, 10, 8, 8>>, <<10, 10, 12, 3>>,
      <<SSD1306_WIDTH - 8, SSD1306_HEIGHT - 4, 16, 8>>,
      <<100, 0, 160, 1>>, <<0, 60, 1, 200>>, <<SSD1306_WIDTH, 0, 8, 8>> }

CallSsd1306DrawBitmap(b, bitmap, color) ==
    /\ call.n < MaxCalls
    /\ mem' = ssd1306_DrawBitmap(mem, b[1], b[2], bitmap, b[3], b[4], color)
    /\ call' = [n |-> call.n + 1, fn |-> "ssd1306_DrawBitmap", x |-> b[1], y |-> b[2],
                w |-> b[3], h |-> b[4], bitmap |-> bitmap, color |-> color,
                changed |-> mem' # mem]
    /\ lastOp' = "ssd1306_DrawBitmap"
    /\ UNCHANGED <<disp, SSD1306>>
    /\ DrawFrame

\* the same blits through dispDrawBitmap, whose origin is 1-based
CallDispDrawBitmap(b, bitmap, color) ==
    LET coords == [x |-> b[1] + 1, y |-> b[2] + 1]
    IN  /\ call.n < MaxCalls
        /\ mem' = dispDrawBitmap(disp, mem, coords, bitmap, b[3], b[4], color)
        /\ disp' = dispDrawPixelsCtx(disp, dispDrawBitmapPixels(coords, bitmap, b[3], b[4]))
        /\ call' = [n |-> call.n + 1, fn |-> "dispDrawBitmap", x |-> coords.x,
                    y |-> coords.y, w |-> b[3], h |-> b[4], bitmap |-> bitmap,
                    color |-> color, changed |-> mem' # mem]
        /\ lastOp' = "dispDrawBitmap"
        /\ UNCHANGED SSD1306
        /\ DrawFrame

NextBitmap ==
    \/ \E b \in Blits, bitmap \in Bitmaps, color \in SSD1306_Colors :
            CallSsd1306DrawBitmap(b, bitmap, color)
    \/ \E b \in Blits, bitmap \in Bitmaps, color \in Colors :
            CallDispDrawBitmap(b, bitmap, color)

SpecBitmap == Init /\ [][NextBitmap]_vars

\* the angles normalised: around 0 and the first multiples of 360, and at the top
\* of the uint16_t range (65160 is 181 * 360)
Angles == {0, 1, 90, 359, 360, 361, 400, 719, 720, 721, 65160, 65161, 65535}

CallSsd1306NormalizeTo0_360(par_deg) ==
    /\ call.n < MaxCalls
    /\ call' = [n |-> call.n + 1, fn |-> "ssd1306_NormalizeTo0_360", deg |-> par_deg,
                ret |-> ssd1306_NormalizeTo0_360(par_deg)]
    /\ lastOp' = "ssd1306_NormalizeTo0_360"
    /\ UNCHANGED <<disp, mem, SSD1306>>
    /\ DrawFrame

\* dispDrawCircleShape up to the end of its normalisation, for a shape with one
\* segment of thickness one; start_deg and sweep_deg are its locals after it
CallDispDrawCircleShape(radius, start_deg, sweep_deg) ==
    LET returns == dispDrawCircleShapeReturns(radius, sweep_deg, 1, 1)
    IN  /\ call.n < MaxCalls
        /\ call' = [n |-> call.n + 1, fn |-> "dispDrawCircleShape", radius |-> radius,
                    start |-> start_deg, sweep |-> sweep_deg, returns |-> returns,
                    start_deg |-> IF returns THEN start_deg
                                  ELSE dispDrawCircleShapeStart(start_deg),
                    sweep_deg |-> IF returns THEN sweep_deg
                                  ELSE dispDrawCircleShapeSweep(sweep_deg)]
        /\ lastOp' = "dispDrawCircleShape"
        /\ UNCHANGED <<disp, mem, SSD1306>>
        /\ DrawFrame

NextArc ==
    \/ \E par_deg \in Angles : CallSsd1306NormalizeTo0_360(par_deg)
    \/ \E radius \in {0, 10}, start_deg \in Angles, sweep_deg \in Angles :
            CallDispDrawCircleShape(radius, start_deg, sweep_deg)

SpecArc == Init /\ [][NextArc]_vars

\* the base times of the test strips in milliseconds: one rounding step, a few of
\* them, exposures of seconds, and beyond half an hour, where the product with
\* the largest multiplier passes 32 bits
BaseTimes == {100, 200, 500, 1000, 8000, 16000, 30000, 2097200}

\* the largest number of steps asked for
MaxSteps == 3

CallGenererateTestStrip(baseTime, steps, resolution) ==
    /\ call.n < MaxCalls
    /\ call' = [n |-> call.n + 1, fn |-> "genererateTestStrip", baseTime |-> baseTime,
                steps |-> steps, resolution |-> resolution,
                pRes |-> genererateTestStrip(baseTime, steps, resolution)]
    /\ lastOp' = "genererateTestStrip"
    /\ UNCHANGED <<disp, mem, SSD1306>>
    /\ DrawFrame

NextStrip ==
    \E baseTime \in BaseTimes, steps \in 1..MaxSteps, resolution \in FStops :
        CallGenererateTestStrip(baseTime, steps, resolution)

SpecStrip == Init /\ [][NextStrip]_vars

\* the angles asked for: every 15 degrees over two turns
Degrees == {d \in 0..720 : d % 15 = 0}

CallFxpCos(deg) ==
    /\ call.n < MaxCalls
    /\ call' = [n |-> call.n + 1, fn |-> "fxp_cos", deg |-> deg, ret |-> fxp_cos(deg)]
    /\ lastOp' = "fxp_cos"
    /\ UNCHANGED <<disp, mem, SSD1306>>
    /\ DrawFrame

CallFxpSin(deg) ==
    /\ call.n < MaxCalls
    /\ call' = [n |-> call.n + 1, fn |-> "fxp_sin", deg |-> deg, ret |-> fxp_sin(deg)]
    /\ lastOp' = "fxp_sin"
    /\ UNCHANGED <<disp, mem, SSD1306>>
    /\ DrawFrame

NextTrig ==
    \/ \E deg \in Degrees : CallFxpCos(deg)
    \/ \E deg \in Degrees : CallFxpSin(deg)

SpecTrig == Init /\ [][NextTrig]_vars

\* the rectangles inverted, as <<x1, y1, x2, y2>>: inside one page; over a partial
\* first page, two full pages and a partial last page; over two pages with none
\* between; ending on the last column and row; then one for each guard
InvertRects ==
    { <<10, 2, 20, 5>>, <<10, 3, 20, 29>>, <<0, 7, 0, 8>>, <<10, 10, 20, 20>>,
      <<SSD1306_WIDTH - 8, SSD1306_HEIGHT - 12, SSD1306_WIDTH - 1, SSD1306_HEIGHT - 1>>,
      <<10, 10, SSD1306_WIDTH, 20>>, <<10, 10, 20, SSD1306_HEIGHT>>,
      <<20, 10, 10, 20>>, <<10, 20, 20, 10>>, <<10, 10, 255, 255>> }

\* the lengths handed to ssd1306_FillBuffer and the value of the source bytes
FillLengths == {0, 1, SSD1306_BUFFER_SIZE, SSD1306_BUFFER_SIZE + 1}
FillByte == 165

CallSsd1306InvertRectangle(r) ==
    LET res == ssd1306_InvertRectangle(mem, r[1], r[2], r[3], r[4])
    IN  /\ call.n < MaxCalls
        /\ mem' = res.mem
        /\ call' = [n |-> call.n + 1, fn |-> "ssd1306_InvertRectangle", x1 |-> r[1],
                    y1 |-> r[2], x2 |-> r[3], y2 |-> r[4], ret |-> res.ret,
                    twice |-> /\ call.fn = "ssd1306_InvertRectangle"
                              /\ <<call.x1, call.y1, call.x2, call.y2>> = r,
                    changed |-> mem' # mem]
        /\ lastOp' = "ssd1306_InvertRectangle"
        /\ UNCHANGED <<disp, SSD1306>>
        /\ DrawFrame

CallSsd1306FillBuffer(len) ==
    LET res == ssd1306_FillBuffer(mem, FillByte, len)
    IN  /\ call.n < MaxCalls
        /\ mem' = res.mem
        /\ call' = [n |-> call.n + 1, fn |-> "ssd1306_FillBuffer", len |-> len,
                    ret |-> res.ret, changed |-> mem' # mem]
        /\ lastOp' = "ssd1306_FillBuffer"
        /\ UNCHANGED <<disp, SSD1306>>
        /\ DrawFrame

NextBulk ==
    \/ \E r \in InvertRects : CallSsd1306InvertRectangle(r)
    \/ \E len \in FillLengths : CallSsd1306FillBuffer(len)

SpecBulk == Init /\ [][NextBulk]_vars

(* timer.c: initTimer and startEnlargerTimer on the timer registers.  The     *)
(* prescaler and auto-reload registers of TIM1, TIM14 and TIM15 are 16 bits   *)
(* wide.                                                                      *)

\* SystemCoreClock, which initSysclock leaves at the 16 MHz it starts with
SystemCoreClock == 16000000

\* __LL_TIM_CALC_PSC(TIMCLK, CNTCLK)
LL_TIM_CALC_PSC(timclk, cntclk) == IF timclk >= cntclk THEN timclk \div cntclk - 1 ELSE 0

\* __LL_TIM_CALC_ARR(TIMCLK, PSC, FREQ)
LL_TIM_CALC_ARR(timclk, psc, freq) ==
    IF timclk \div (psc + 1) >= freq THEN timclk \div (freq * (psc + 1)) - 1 ELSE 0

\* board.c: delayTimer, framerateTimer, enlargerTimer
TimerDefs == {[pHWTimer |-> "TIM1", period |-> 1000],
              [pHWTimer |-> "TIM14", period |-> 1000],
              [pHWTimer |-> "TIM15", period |-> 1000]}

\* the timer registers after initTimer(pTimerDef)
initTimer(t, pTimerDef) ==
    LET hw  == pTimerDef.pHWTimer
        psc == LL_TIM_CALC_PSC(SystemCoreClock, pTimerDef.period) % 65536
        t1  == [t EXCEPT ![hw].PSC = psc]
    IN  IF hw = "TIM1"
        THEN [t1 EXCEPT !["TIM1"].ARR = 65535, !["TIM1"].CEN = TRUE]
        ELSE IF hw = "TIM14"
        THEN [t1 EXCEPT !["TIM14"].ARR =
                            LL_TIM_CALC_ARR(SystemCoreClock, t1["TIM14"].PSC, 33) % 65536,
                        !["TIM14"].UIE = TRUE, !["TIM14"].CEN = TRUE]
        ELSE IF hw = "TIM15"
        THEN [t1 EXCEPT !["TIM14"].ARR =
                            LL_TIM_CALC_ARR(SystemCoreClock, t1["TIM14"].PSC, 100) % 65536,
                        !["TIM15"].UIE = TRUE]
        ELSE t

\* the timer registers after startEnlargerTimer(duration)
startEnlargerTimer(t, duration) ==
    [t EXCEPT !["TIM15"].ARR =
                  LL_TIM_CALC_ARR(SystemCoreClock, t["TIM15"].PSC, duration) % 65536,
              !["TIM15"].CEN = TRUE]

TimerFrame ==
    UNCHANGED <<disp, mem, xfer, eng, g_framerateCallback, dma, i2c, wire, lastCb, cbCount,
                halted, SSD1306, cmd, call, spi, panel, draw>>

InitTimerOp(hw) ==
    IF hw = "TIM1" THEN "initTimer(TIM1)"
    ELSE IF hw = "TIM14" THEN "initTimer(TIM14)" ELSE "initTimer(TIM15)"

InitTimer(pTimerDef) ==
    /\ tim' = initTimer(tim, pTimerDef)
    /\ lastOp' = InitTimerOp(pTimerDef.pHWTimer)
    /\ TimerFrame

StartEnlargerTimer(duration) ==
    /\ tim' = startEnlargerTimer(tim, duration)
    /\ lastOp' = "startEnlargerTimer"
    /\ TimerFrame

\* exposure times handed to startEnlargerTimer
Durations == {1, 10, 33, 100, 500, 1000, 16000}

NextTimer ==
    \/ \E pTimerDef \in TimerDefs : InitTimer(pTimerDef)
    \/ \E duration \in Durations : StartEnlargerTimer(duration)

SpecTimer == Init /\ [][NextTimer]_vars

(* ssd1306.c: ssd1306_FillCircle, one loop test at a time.  x, y and err are  *)
(* int32_t; the loop counters _x and _y (ux and uy here) are uint8_t and are  *)
(* compared with the int expressions par_x + x and par_y - y.                 *)

\* the guard before the loops, and the first _y of the do body
FillCircleEnter(par_x, par_y, par_r, color) ==
    /\ call.n = 0
    /\ call' = [n |-> 1, fn |-> "ssd1306_FillCircle", par_x |-> par_x, par_y |-> par_y,
                par_r |-> par_r, color |-> color, x |-> -par_r, y |-> 0,
                err |-> 2 - 2 * par_r, ux |-> 0, uy |-> par_y % 256,
                pc |-> IF par_x >= SSD1306_WIDTH \/ par_y >= SSD1306_HEIGHT
                       THEN "return" ELSE "for_y"]
    /\ lastOp' = "ssd1306_FillCircle"
    /\ UNCHANGED <<mem, disp, SSD1306>>
    /\ DrawFrame

\* for (uint8_t _y = par_y + y; _y >= par_y - y; _y--): the test, then the
\* first _x of the inner loop
FillCircleForY ==
    /\ call.fn = "ssd1306_FillCircle"
    /\ call.pc = "for_y"
    /\ call' = IF call.uy >= call.par_y - call.y
               THEN [call EXCEPT !.pc = "for_x", !.ux = (call.par_x - call.x) % 256]
               ELSE [call EXCEPT !.pc = "step"]
    /\ lastOp' = "ssd1306_FillCircle:for_y"
    /\ UNCHANGED <<mem, disp, SSD1306>>
    /\ DrawFrame

\* for (uint8_t _x = par_x - x; _x >= par_x + x; _x--): the test, then the
\* pixel and _x--, or the _y-- of the outer loop
FillCircleForX ==
    /\ call.fn = "ssd1306_FillCircle"
    /\ call.pc = "for_x"
    /\ IF call.ux >= call.par_x + call.x
       THEN /\ mem' = ssd1306_DrawPixel(mem, call.ux, call.uy, call.color)
            /\ call' = [call EXCEPT !.ux = (call.ux - 1) % 256]
       ELSE /\ mem' = mem
            /\ call' = [call EXCEPT !.pc = "for_y", !.uy = (call.uy - 1) % 256]
    /\ lastOp' = "ssd1306_FillCircle:for_x"
    /\ UNCHANGED <<disp, SSD1306>>
    /\ DrawFrame

\* the error update after the loops and the test of the do-while
FillCircleStep ==
    /\ call.fn = "ssd1306_FillCircle"
    /\ call.pc = "step"
    /\ LET up  == call.err <= call.y
           y1  == IF up THEN call.y + 1 ELSE call.y
           er1 == IF up THEN call.err + (y1 * 2 + 1) ELSE call.err
           e2  == IF up /\ -call.x = y1 /\ call.err <= call.x THEN 0 ELSE call.err
           x1  == IF e2 > call.x THEN call.x + 1 ELSE call.x
           er2 == IF e2 > call.x THEN er1 + (x1 * 2 + 1) ELSE er1
       IN  call' = [call EXCEPT !.x = x1, !.y = y1, !.err = er2,
                                !.uy = (call.par_y + y1) % 256,
                                !.pc = IF x1 <= 0 THEN "for_y" ELSE "return"]
    /\ lastOp' = "ssd1306_FillCircle:step"
    /\ UNCHANGED <<mem, disp, SSD1306>>
    /\ DrawFrame

\* the centres and radii of the calls: inside the panel and clear of the edges,
\* on the top row, on the left column, in the corner, outside the panel
Centres == {<<64, 32>>, <<6, 6>>, <<10, 0>>, <<0, 10>>, <<0, 0>>, <<2, 5>>, <<128, 0>>}
Radii == {0, 1, 2, 3, 5, 255}

FillCircleRuns == FillCircleForY \/ FillCircleForX \/ FillCircleStep

NextCircle ==
    \/ \E c \in Centres, r \in Radii : FillCircleEnter(c[1], c[2], r, "White")
    \/ FillCircleForY
    \/ FillCircleForX
    \/ FillCircleStep

SpecCircle == Init /\ [][NextCircle]_vars

\* a routine that has been called keeps executing
FairSpecCircle == SpecCircle /\ WF_vars(FillCircleRuns)

-----------------------------------------------------------------------------
(* Properties *)

RECURSIVE SumSizes(_)
SumSizes(chunks) ==
    IF chunks = <<>> THEN 0 ELSE chunks[1].size + SumSizes(Tail(chunks))

CeilDiv(a, b) == (a + b - 1) \div b

\* the transfer started last went over the DMA display path of I2C2
OnDisplayDMA == wire # <<>> /\ wire[1].bus = "I2C2/DMA1"

\* the last step was the handler that ended a DMA display transfer with success
DisplayDMADone ==
    /\ OnDisplayDMA
    /\ lastOp = "DMA1_Channel1_IRQHandler:TC"
    /\ lastCb.fn # NULL
    /\ lastCb.success

(* C1: while DMAInProgress is true, the buffer the in-flight transfer reads    *)
(* from (dmaTransferContext.pBuffer) is not the buffer dispDrawPixel writes to *)
(* (pFrontBuffer).                                                             *)
C1_TransferNotFromFront ==
    disp.DMAInProgress => xfer["disp"].pBuffer.buf # disp.pFrontBuffer

(* C2: when a DMA display transfer of length L has completed with success, the *)
(* chunk sizes issued sum to L, none exceeds 255, none is zero, and there are  *)
(* ceil(L/255) of them; a transfer of length 0 issues no chunk and is complete *)
(* with success when i2cTransferDisplayDMA returns.                            *)
C2_Chunking ==
    /\ DisplayDMADone =>
          /\ SumSizes(wire) = lastCb.len
          /\ \A k \in 1..Len(wire) : wire[k].size <= I2C_MAX_NBYTES /\ wire[k].size > 0
          /\ Len(wire) = CeilDiv(lastCb.len, I2C_MAX_NBYTES)
    /\ (lastOp = "i2cTransferDisplayDMA" /\ xfer["app"].len = 0) =>
          /\ wire = <<>>
          /\ lastCb.fn # NULL /\ lastCb.success

(* C3: on every path (DMA display, I2C1, I2C2) the completion callback is      *)
(* invoked with success = true only when the context's transferred equals len. *)
C3_SuccessOnlyAtLen ==
    (lastCb.fn # NULL /\ lastCb.success) => lastCb.transferred = lastCb.len

(* C4: dispSyncFramebuffer starts a transfer only from a state in which the    *)
(* display is enabled, the front buffer is marked modified and no transfer is  *)
(* in flight; and whenever a chunk is outstanding DMAInProgress is true, so no *)
(* second transfer starts between a start and its completion callback.         *)
C4_StartGated ==
    /\ [](dma.en => disp.DMAInProgress)
    /\ [][lastOp' = "dispSyncFramebuffer:start" =>
            (disp.isEnabled /\ disp.fbModified /\ ~disp.DMAInProgress /\ ~dma.en)]_vars

C4_Witness == lastOp = "dispSyncFramebuffer:start" /\ disp.DMAInProgress /\ dma.en

C6_ErrorReportedOnce ==
    [][(lastOp' = "DMA1_Channel1_IRQHandler:TE" /\ disp.DMAInProgress) =>
          /\ cbCount' = cbCount + 1
          /\ lastCb'.fn # NULL /\ ~lastCb'.success
          /\ ~disp'.DMAInProgress
          /\ ~dma'.en /\ wire' = wire]_vars

(* C7: in either display mode a transfer started by dispSyncFramebuffer        *)
(* reaches the completion callback: DMAInProgress leads to ~DMAInProgress,     *)
(* given that every chunk issued gets its completion or error event.           *)
C7_SyncCompletes == disp.DMAInProgress ~> ~disp.DMAInProgress

(* C8: i2cTransferDisplayDMA called while the previous transfer is in flight   *)
(* changes neither the context in flight nor the DMA and I2C programming.      *)
C8_InFlightStartIsNoOp ==
    [][lastOp' = "i2cTransferDisplayDMA:inflight" =>
          (xfer' = xfer /\ dma' = dma /\ i2c' = i2c)]_vars

C10_LaterChunksRestart ==
    \A k \in 1..Len(wire) :
        wire[k].bus \in {"I2C2/DMA1", "I2C2"} =>
            wire[k].gen = IF k = 1 THEN "START" ELSE "RESTART"

\* the step is a call of the drawing routine fn
Called(fn) == call'.n = call.n + 1 /\ call'.fn = fn

(* C11: a set-pixel call whose coordinates address no pixel of the panel      *)
(* changes no bit of memory, inside or outside the framebuffers:              *)
(* ssd1306_DrawPixel with x >= W or y >= H (0-based), dispDrawPixel with      *)
(* x > W, y > H, x = 0 or y = 0 (1-based).                                    *)
C11_OutOfPanelIsNoOp ==
    [][/\ (Called("ssd1306_DrawPixel")
            /\ (call'.x >= SSD1306_WIDTH \/ call'.y >= SSD1306_HEIGHT)) => mem' = mem
       /\ (Called("dispDrawPixel")
            /\ (call'.x > SSD1309_WIDTH \/ call'.y > SSD1309_HEIGHT
                   \/ call'.x = 0 \/ call'.y = 0)) => mem' = mem]_vars

\* the bit of pixel (column c, row r), 0-based, in the buffer at address base
PixelCell(base, c, r, w) == <<base + c + (r \div 8) * w, r % 8>>

RectCells(base, c1, r1, c2, r2, w) ==
    {PixelCell(base, c, r, w) : c \in c1..c2, r \in r1..r2}

(* C13: a filled-rectangle call with corners on the panel, in any order, sets *)
(* to the colour exactly the pixels with min(x1,x2) <= x <= max(x1,x2) and    *)
(* min(y1,y2) <= y <= max(y1,y2), the last column and row included, and       *)
(* changes no other bit.                                                      *)
C13_FillExactRectangle ==
    [][/\ Called("ssd1306_FillRectangle") =>
            LET cells == RectCells(SSD1306_BufferBase,
                                   Min(call'.x1, call'.x2), Min(call'.y1, call'.y2),
                                   Max(call'.x1, call'.x2), Max(call'.y1, call'.y2),
                                   SSD1306_WIDTH)
            IN  mem' = IF call'.color = "White" THEN mem \cup cells ELSE mem \ cells
       /\ Called("dispDrawFilledRectangle") =>
            LET cells == RectCells(Base(disp.pFrontBuffer),
                                   Min(call'.x1, call'.x2) - 1, Min(call'.y1, call'.y2) - 1,
                                   Max(call'.x1, call'.x2) - 1, Max(call'.y1, call'.y2) - 1,
                                   SSD1309_WIDTH)
            IN  mem' = IF call'.color = "COLOR_WHITE" THEN mem \cup cells
                                                      ELSE mem \ cells]_vars

\* the minor-axis offset of the integer Bresenham line after k steps of the major
\* axis: k*dmin/dmaj rounded to the nearest integer, a half rounded down
BresenhamOffset(k, dmin, dmaj) ==
    IF dmaj = 0 THEN 0 ELSE (2 * k * dmin + dmaj - 1) \div (2 * dmaj)

\* the pixels of the integer Bresenham line from (x0, y0) to (x1, y1)
BresenhamLine(x0, y0, x1, y1) ==
    LET dx == Abs(x1 - x0)
        dy == Abs(y1 - y0)
        sx == IF x0 < x1 THEN 1 ELSE -1
        sy == IF y0 < y1 THEN 1 ELSE -1
    IN  IF dx >= dy
        THEN {<<x0 + sx * k, y0 + sy * BresenhamOffset(k, dy, dx)>> : k \in 0..dx}
        ELSE {<<x0 + sx * BresenhamOffset(k, dx, dy), y0 + sy * k>> : k \in 0..dy}

\* ps has exactly one pixel for each step of the major axis from (x0, y0) to
\* (x1, y1), and the pixels of consecutive steps are neighbours
OnePerMajorStep(ps, x0, y0, x1, y1) ==
    LET dx == Abs(x1 - x0)
        dy == Abs(y1 - y0)
        sx == IF x0 < x1 THEN 1 ELSE -1
        sy == IF y0 < y1 THEN 1 ELSE -1
        At(k) == IF dx >= dy THEN {p \in ps : p[1] = x0 + sx * k}
                             ELSE {p \in ps : p[2] = y0 + sy * k}
    IN  /\ \A k \in 0..Max(dx, dy) : Cardinality(At(k)) = 1
        /\ \A k \in 1..Max(dx, dy) :
               \A p \in At(k - 1), q \in At(k) :
                   Abs(p[1] - q[1]) <= 1 /\ Abs(p[2] - q[2]) <= 1

\* what C14 asks of the pixels drawn, 0-based, for the line (x0, y0)-(x1, y1)
IsBresenham(drawn, x0, y0, x1, y1) ==
    /\ Len(drawn) = Max(Abs(x1 - x0), Abs(y1 - y0)) + 1
    /\ Cardinality(Range(drawn)) = Len(drawn)
    /\ <<x0, y0>> \in Range(drawn) /\ <<x1, y1>> \in Range(drawn)
    /\ OnePerMajorStep(Range(drawn), x0, y0, x1, y1)
    /\ Range(drawn) = BresenhamLine(x0, y0, x1, y1)

(* C14: for end points on the panel the line routine returns, draws both end  *)
(* points and exactly max(|dx|,|dy|)+1 pixels, one for each step of the major *)
(* axis and each next to the one before, which are the pixels of the integer  *)
(* Bresenham line ((0,0)-(4,2) gives (0,0),(1,0),(2,1),(3,1),(4,2)); a line   *)
(* with equal end points draws that one pixel.  Only those bits change.       *)
C14_LineIsBresenham ==
    [][/\ Called("ssd1306_Line") =>
            LET cells == {PixelCell(SSD1306_BufferBase, p[1], p[2], SSD1306_WIDTH) :
                            p \in Range(call'.drawn)}
            IN  /\ call'.returned
                /\ IsBresenham(call'.drawn, call'.x1, call'.y1, call'.x2, call'.y2)
                /\ mem' = IF call'.color = "White" THEN mem \cup cells ELSE mem \ cells
       /\ Called("dispDrawLine") =>
            LET drawn == [k \in 1..Len(call'.drawn) |->
                            <<call'.drawn[k][1] - 1, call'.drawn[k][2] - 1>>]
                cells == {PixelCell(Base(disp.pFrontBuffer), p[1], p[2], SSD1309_WIDTH) :
                            p \in Range(drawn)}
            IN  /\ call'.returned
                /\ IsBresenham(drawn, call'.x1 - 1, call'.y1 - 1, call'.x2 - 1,
                               call'.y2 - 1)
                /\ mem' = IF call'.color = "COLOR_WHITE" THEN mem \cup cells
                                                          ELSE mem \ cells]_vars

\* dispDrawLine has drawn the line (0,0)-(4,2) of the panel as the five pixels
\* (0,0),(1,0),(2,1),(3,1),(4,2), in its 1-based coordinates
C14_Witness ==
    /\ call.fn = "dispDrawLine" /\ call.color = "COLOR_WHITE" /\ call.changed
    /\ call.drawn = << <<1, 1>>, <<2, 1>>, <<3, 2>>, <<4, 2>>, <<5, 3>> >>

(* C15: for a valid rectangle (x1 <= x2 < W, y1 <= y2 < H)                    *)
(* ssd1306_InvertRectangle flips exactly the pixels with x1 <= x <= x2 and    *)
(* y1 <= y <= y2 and no other bit, inside one page as over several; so the    *)
(* same call made twice on the cleared buffer leaves it cleared.              *)
C15_InvertExactRectangle ==
    /\ [][Called("ssd1306_InvertRectangle") =>
            ((call'.x1 <= call'.x2 /\ call'.x2 < SSD1306_WIDTH
                /\ call'.y1 <= call'.y2 /\ call'.y2 < SSD1306_HEIGHT) =>
                 mem' = Flip(mem, RectCells(SSD1306_BufferBase, call'.x1, call'.y1,
                                            call'.x2, call'.y2, SSD1306_WIDTH)))]_vars
    /\ []((call.n = 2 /\ call.fn = "ssd1306_InvertRectangle" /\ call.twice) => mem = {})

\* a rectangle over a partial first page, two full pages and a partial last page
\* has been inverted twice
C15_Witness ==
    /\ call.n = 2 /\ call.fn = "ssd1306_InvertRectangle" /\ call.twice
    /\ call.ret = "SSD1306_OK" /\ call.changed
    /\ <<call.x1, call.y1, call.x2, call.y2>> = <<10, 3, 20, 29>>

(* C16: ssd1306_InvertRectangle returns SSD1306_ERR and changes nothing when  *)
(* x2 >= W, y2 >= H, x1 > x2 or y1 > y2; ssd1306_FillBuffer returns           *)
(* SSD1306_ERR and changes nothing when len exceeds the buffer size; in every *)
(* other case each returns SSD1306_OK.                                        *)
C16_BulkReportsFailure ==
    [][/\ Called("ssd1306_InvertRectangle") =>
            IF \/ call'.x2 >= SSD1306_WIDTH \/ call'.y2 >= SSD1306_HEIGHT
               \/ call'.x1 > call'.x2 \/ call'.y1 > call'.y2
            THEN call'.ret = "SSD1306_ERR" /\ mem' = mem
            ELSE call'.ret = "SSD1306_OK"
       /\ Called("ssd1306_FillBuffer") =>
            IF call'.len > SSD1306_BUFFER_SIZE
            THEN call'.ret = "SSD1306_ERR" /\ mem' = mem
            ELSE call'.ret = "SSD1306_OK"]_vars

\* a fill one byte longer than the buffer has been refused on a buffer with content
C16_Witness ==
    /\ call.fn = "ssd1306_FillBuffer" /\ call.len = SSD1306_BUFFER_SIZE + 1
    /\ call.ret = "SSD1306_ERR" /\ mem # {}

C18_ToggleIsIndependent ==
    [][lastOp' = "toggleDisplay" =>
        /\ cmd' = IF disp'.isEnabled THEN <<175>> ELSE <<174>>
        /\ disp'.DMAInProgress = disp.DMAInProgress
        /\ disp'.fbModified = disp.fbModified
        /\ disp'.pFrontBuffer = disp.pFrontBuffer
        /\ disp'.pBackBuffer = disp.pBackBuffer
        /\ disp'.currentX = disp.currentX /\ disp'.currentY = disp.currentY
        /\ mem' = mem
        /\ xfer' = xfer]_vars

\* the display was switched off in the middle of a frame transfer, with a moved
\* cursor and a drawn pixel waiting for the next frame
C18_Witness ==
    /\ lastOp = "toggleDisplay" /\ cmd = <<174>> /\ ~disp.isEnabled
    /\ disp.DMAInProgress /\ disp.fbModified /\ mem # {}
    /\ disp.currentX = 5 /\ disp.currentY = 7
    /\ xfer["disp"].transferred > 0

(* C19: at the cardinal angles the helpers return the exact scaled values:    *)
(* fxp_cos gives 1024, 0, -1024, 0 and fxp_sin gives 0, 1024, 0, -1024 at     *)
(* 0, 90, 180 and 270 degrees.                                                *)
C19_CardinalAngles ==
    /\ call.fn = "fxp_cos" =>
        /\ call.deg = 0 => call.ret = 1024
        /\ call.deg = 90 => call.ret = 0
        /\ call.deg = 180 => call.ret = -1024
        /\ call.deg = 270 => call.ret = 0
    /\ call.fn = "fxp_sin" =>
        /\ call.deg = 0 => call.ret = 0
        /\ call.deg = 90 => call.ret = 1024
        /\ call.deg = 180 => call.ret = 0
        /\ call.deg = 270 => call.ret = -1024

(* C20: a character write, at any cursor, the initial <<0, 0>> included:      *)
(* when the character is outside 32..126 or the glyph would pass the right or *)
(* bottom edge of the panel it returns 0 and changes neither memory nor       *)
(* cursor; otherwise it returns the character, changes only bits of the glyph *)
(* cell at the cursor, all inside the framebuffer, adds the glyph width (from *)
(* the width table when the font has one, else the font width) to cursor X    *)
(* and leaves cursor Y alone.  For dispWriteChar the cell is taken generously *)
(* as the columns and rows from cursor - 1 to cursor + size - 1, which holds  *)
(* the cell of a 0-based and of a 1-based cursor.                             *)
C20_WriteChar ==
    [][/\ Called("ssd1306_WriteChar") =>
            IF \/ call'.ch < 32 \/ call'.ch > 126
               \/ SSD1306.CurrentX + call'.width > SSD1306_WIDTH
               \/ SSD1306.CurrentY + call'.height > SSD1306_HEIGHT
            THEN call'.ret = 0 /\ mem' = mem /\ SSD1306' = SSD1306
            ELSE /\ call'.ret = call'.ch
                 /\ Flip(mem, mem') \subseteq
                        RectCells(SSD1306_BufferBase, SSD1306.CurrentX, SSD1306.CurrentY,
                                  SSD1306.CurrentX + call'.width - 1,
                                  SSD1306.CurrentY + call'.height - 1, SSD1306_WIDTH)
                 /\ SSD1306'.CurrentX = SSD1306.CurrentX + call'.advance
                 /\ SSD1306'.CurrentY = SSD1306.CurrentY
       /\ Called("dispWriteChar") =>
            IF \/ call'.ch < 32 \/ call'.ch > 126
               \/ disp.currentX + call'.width > SSD1309_WIDTH
               \/ disp.currentY + call'.height > SSD1309_HEIGHT
            THEN call'.ret = 0 /\ mem' = mem /\ disp' = disp
            ELSE /\ call'.ret = call'.ch
                 /\ Flip(mem, mem') \subseteq
                        RectCells(Base(disp.pFrontBuffer),
                                  Max(disp.currentX - 1, 0), Max(disp.currentY - 1, 0),
                                  Min(disp.currentX + call'.width, SSD1309_WIDTH) - 1,
                                  Min(disp.currentY + call'.height, SSD1309_HEIGHT) - 1,
                                  SSD1309_WIDTH)
                 /\ disp'.currentX = disp.currentX + call'.advance
                 /\ disp'.currentY = disp.currentY]_vars

\* the 0-based panel pixels a blit with 0-based origin <<x, y>> and size w x h
\* addresses: <<x + i, y + j>> for the set source bits, most significant bit
\* first in rows of ceil(w / 8) bytes, as far as they lie on a panel of W x H
BlitPixels(x, y, bitmap, w, h, W, H) ==
    {<<x + q[1], y + q[2]>> :
        q \in {r \in (0..w - 1) \X (0..h - 1) :
                  /\ (bitmap[r[2] * CeilDiv(w, 8) + r[1] \div 8] \div 2^(7 - (r[1] % 8))) % 2 = 1
                  /\ x + r[1] < W /\ y + r[2] < H}}

(* C21: a bitmap blit with origin (x, y) and size w x h sets to the colour    *)
(* exactly the panel pixels (x + i, y + j) whose source bit is 1, and changes *)
(* no other bit: source pixels beyond the panel edge are clipped, not wrapped *)
(* to the opposite edge.                                                      *)
C21_BlitExactAndClipped ==
    [][/\ Called("ssd1306_DrawBitmap") =>
            LET ps == BlitPixels(call'.x, call'.y, call'.bitmap, call'.w, call'.h,
                                 SSD1306_WIDTH, SSD1306_HEIGHT)
                cells == {PixelCell(SSD1306_BufferBase, p[1], p[2], SSD1306_WIDTH) : p \in ps}
            IN  mem' = IF call'.color = "White" THEN mem \cup cells ELSE mem \ cells
       /\ Called("dispDrawBitmap") =>
            LET ps == BlitPixels(call'.x - 1, call'.y - 1, call'.bitmap, call'.w, call'.h,
                                 SSD1309_WIDTH, SSD1309_HEIGHT)
                cells == {PixelCell(Base(disp.pFrontBuffer), p[1], p[2], SSD1309_WIDTH) :
                             p \in ps}
            IN  mem' = IF call'.color = "COLOR_WHITE" THEN mem \cup cells
                                                      ELSE mem \ cells]_vars

\* an angle normalised as the arc routines are said to: a multiple of 360 to 360,
\* any other angle to its remainder
NormalisedAngle(a) == IF a % 360 = 0 THEN 360 ELSE a % 360

(* C22: a start or sweep angle that is a multiple of 360 normalises to 360,   *)
(* any other angle a to a mod 360, in ssd1306_NormalizeTo0_360 and in the     *)
(* normalisation of start_deg and sweep_deg at the head of                    *)
(* dispDrawCircleShape (when it goes on to draw).                             *)
C22_AngleNormalisation ==
    /\ call.fn = "ssd1306_NormalizeTo0_360" => call.ret = NormalisedAngle(call.deg)
    /\ (call.fn = "dispDrawCircleShape" /\ ~call.returns) =>
        /\ call.start_deg = NormalisedAngle(call.start)
        /\ call.sweep_deg = NormalisedAngle(call.sweep)

(* C23: genererateTestStrip(baseTime, steps, resolution, pRes) writes         *)
(* 2 * steps + 1 entries with baseTime at index steps; each entry before it   *)
(* is lower than baseTime and each entry after it is higher, for every        *)
(* baseTime, resolution and steps >= 1.                                       *)
C23_TestStripAroundBase ==
    call.fn = "genererateTestStrip" =>
        /\ Len(call.pRes) = 2 * call.steps + 1
        /\ call.pRes[call.steps + 1] = call.baseTime
        /\ \A i \in 1..call.steps : call.pRes[i] < call.baseTime
        /\ \A i \in call.steps + 2..2 * call.steps + 1 : call.pRes[i] > call.baseTime

\* the step exchanged the front and back roles
RolesExchanged ==
    /\ disp'.pFrontBuffer = disp.pBackBuffer
    /\ disp'.pBackBuffer = disp.pFrontBuffer

\* the step is the completion callback after the completion event of the last
\* chunk of a transfer: every byte is out and the channel is off
LastChunkCompleted ==
    /\ lastOp' = "DMA1_Channel1_IRQHandler:TC"
    /\ dma.en /\ ~dma'.en
    /\ cbCount' = cbCount + 1
    /\ lastCb'.fn = "dispDMACallback" /\ lastCb'.success
    /\ lastCb'.transferred >= lastCb'.len

SyncDue == disp.isEnabled /\ disp.fbModified

(* C25: in MODE_I2C as in MODE_SPI, once initDisplay has returned, whenever   *)
(* the display is enabled and a draw call has modified the front buffer, a    *)
(* framebuffer transfer is eventually started (unless the display is switched *)
(* off first), given that the framerate timer keeps ticking and every chunk   *)
(* gets its completion or error event.                                        *)
C25_DrawLeadsToSync ==
    SyncDue ~> (lastOp = "dispSyncFramebuffer:start" \/ ~SyncDue)

(* C26: every command byte is shifted out with the D/C line in the command    *)
(* state, the line is back in the data state whenever the main context is     *)
(* outside spiSendCommand, and no framebuffer byte is on the bus while the    *)
(* line is in the command state, whatever the interleaving of toggleDisplay   *)
(* with a framebuffer transfer.                                               *)
C26_CommandLineDiscipline ==
    /\ spi.bus.kind = "command" => spi.bus.dc = "command"
    /\ spi.pc = "idle" => spi.dc = "data"
    /\ spi.bus.kind = "framebuffer" => spi.bus.dc = "data"

DrawnIn(m, b) ==
    (<<DrawPixelAddr([pFrontBuffer |-> b], draw.pixel), DrawPixelBit(draw.pixel)>> \in m)
        <=> (draw.color = "COLOR_WHITE")

FillCircleCalled == call.n = 1 /\ call.fn = "ssd1306_FillCircle"
FillCircleReturned == FillCircleCalled /\ call.pc = "return"

(* C29: ssd1306_FillCircle terminates for every centre inside the panel and   *)
(* every radius, circles that touch or cross the left or top edge included:   *)
(* a call that has been made eventually returns.                              *)
C29_FillCircleTerminates == FillCircleCalled ~> FillCircleReturned

(* C30: initialising one hardware timer leaves the others as they are:        *)
(* initTimer for the enlarger timer (TIM15) changes neither the prescaler nor *)
(* the auto-reload value of the framerate timer (TIM14), and after the        *)
(* framerate timer and then the enlarger timer have been initialised, as      *)
(* initBoard does, TIM14 has the auto-reload computed for it (33) and TIM15   *)
(* the one computed for it (100).                                             *)
C30_TimersAreIndependent ==
    [][/\ lastOp' = "initTimer(TIM15)" =>
            /\ tim'["TIM14"].PSC = tim["TIM14"].PSC
            /\ tim'["TIM14"].ARR = tim["TIM14"].ARR
       /\ (lastOp = "initTimer(TIM14)" /\ lastOp' = "initTimer(TIM15)") =>
            /\ tim'["TIM14"].ARR =
                   LL_TIM_CALC_ARR(SystemCoreClock, tim'["TIM14"].PSC, 33) % 65536
            /\ tim'["TIM15"].ARR =
                   LL_TIM_CALC_ARR(SystemCoreClock, tim'["TIM15"].PSC, 100) % 65536]_vars

=============================================================================
